---- MODULE Spec2Model ----
(***************************************************************************)
(* Verification model of gateau: the Chrome-family and Firefox cookie      *)
(* store readers (packages/gateau), their key acquisition and value        *)
(* decryption.                                                             *)
(*                                                                         *)
(* Conventions.                                                            *)
(*   - A byte string (Vec<u8>, &[u8]) is a sequence of 0..255.             *)
(*   - A String is the sequence of its Unicode scalar values; the          *)
(*     conversions between the two are from_utf8 / Utf8Encode below.       *)
(*   - A 64/128-bit integer is a signed magnitude of base-1000 limbs,      *)
(*     most significant first (TLC's own integers are 32 bits wide).       *)
(*   - Option<T> is <<>> (None) or <<t>> (Some(t)).                        *)
(***************************************************************************)
EXTENDS Integers, Sequences, FiniteSets, TLC

(***************************************************************************)
(* Bounds of the model.                                                    *)
(***************************************************************************)
\* Largest number of rows of a cookie table.
MaxRows == 2

\* The credential-lookup counter stops the model once it reaches this.
MaxLookups == 2

(***************************************************************************)
(* Bytes and text.                                                         *)
(***************************************************************************)
None == <<>>

Some(x) == <<x>>

IsSome(o) == Len(o) = 1

Unwrap(o) == o[1]

\* slice.get(n..): the bytes from index n (0-based) on, None if n > len.
GetFrom(s, n) == IF n > Len(s) THEN None ELSE Some(SubSeq(s, n + 1, Len(s)))

\* slice.get(..n): the first n bytes, None if n > len.
GetTo(s, n) == IF n > Len(s) THEN None ELSE Some(SubSeq(s, 1, n))

\* slice.starts_with(prefix)
StartsWith(s, prefix) ==
  /\ Len(prefix) <= Len(s)
  /\ SubSeq(s, 1, Len(prefix)) = prefix

IsCont(b) == b \in 128..191

\* Number of bytes of the UTF-8 sequence that starts with b at position i of
\* s, 0 when no well-formed sequence starts there (Rust's utf8 validation).
Utf8Width(s, i) ==
  LET b == s[i]
      n == Len(s)
      c1 == IF i + 1 <= n THEN s[i + 1] ELSE 0
      c2 == IF i + 2 <= n THEN s[i + 2] ELSE 0
      c3 == IF i + 3 <= n THEN s[i + 3] ELSE 0
  IN  IF b < 128 THEN 1
      ELSE IF b \in 194..223 THEN (IF IsCont(c1) THEN 2 ELSE 0)
      ELSE IF b = 224 THEN (IF c1 \in 160..191 /\ IsCont(c2) THEN 3 ELSE 0)
      ELSE IF b \in (225..236) \cup (238..239)
        THEN (IF IsCont(c1) /\ IsCont(c2) THEN 3 ELSE 0)
      ELSE IF b = 237 THEN (IF c1 \in 128..159 /\ IsCont(c2) THEN 3 ELSE 0)
      ELSE IF b = 240
        THEN (IF c1 \in 144..191 /\ IsCont(c2) /\ IsCont(c3) THEN 4 ELSE 0)
      ELSE IF b \in 241..243
        THEN (IF IsCont(c1) /\ IsCont(c2) /\ IsCont(c3) THEN 4 ELSE 0)
      ELSE IF b = 244
        THEN (IF c1 \in 128..143 /\ IsCont(c2) /\ IsCont(c3) THEN 4 ELSE 0)
      ELSE 0

\* The scalar value of the w-byte sequence at position i of s.
Utf8Scalar(s, i, w) ==
  IF w = 1 THEN s[i]
  ELSE IF w = 2 THEN (s[i] - 192) * 64 + (s[i + 1] - 128)
  ELSE IF w = 3
    THEN (s[i] - 224) * 4096 + (s[i + 1] - 128) * 64 + (s[i + 2] - 128)
  ELSE (s[i] - 240) * 262144 + (s[i + 1] - 128) * 4096
         + (s[i + 2] - 128) * 64 + (s[i + 3] - 128)

RECURSIVE Utf8DecodeFrom(_, _, _)
Utf8DecodeFrom(s, i, acc) ==
  IF i > Len(s) THEN [ok |-> TRUE, text |-> acc]
  ELSE LET w == Utf8Width(s, i)
       IN  IF w = 0 THEN [ok |-> FALSE, text |-> <<>>]
           ELSE Utf8DecodeFrom(s, i + w, Append(acc, Utf8Scalar(s, i, w)))

\* String::from_utf8: the text of the bytes, or FromUtf8Error.
from_utf8(bytes) == Utf8DecodeFrom(bytes, 1, <<>>)

\* The UTF-8 bytes of one scalar value.
Utf8EncodeScalar(c) ==
  IF c < 128 THEN <<c>>
  ELSE IF c < 2048 THEN <<192 + (c \div 64), 128 + (c % 64)>>
  ELSE IF c < 65536
    THEN <<224 + (c \div 4096), 128 + ((c \div 64) % 64), 128 + (c % 64)>>
  ELSE <<240 + (c \div 262144), 128 + ((c \div 4096) % 64),
         128 + ((c \div 64) % 64), 128 + (c % 64)>>

RECURSIVE Utf8Encode(_)
\* String::as_bytes: the UTF-8 bytes of a text.
Utf8Encode(text) ==
  IF text = <<>> THEN <<>>
  ELSE Utf8EncodeScalar(Head(text)) \o Utf8Encode(Tail(text))

(***************************************************************************)
(* Base64 (base64ct, standard alphabet, padded), on ASCII codes; 61 is '='. *)
(***************************************************************************)
\* The 6-bit value of a character of the alphabet, -1 for any other.
Sextet(c) ==
  IF c \in 65..90 THEN c - 65
  ELSE IF c \in 97..122 THEN c - 71
  ELSE IF c \in 48..57 THEN c + 4
  ELSE IF c = 43 THEN 62
  ELSE IF c = 47 THEN 63
  ELSE -1

\* The bytes of one group of four characters, or an error.
Base64Quad(q, last) ==
  LET a == Sextet(q[1])
      b == Sextet(q[2])
      c == Sextet(q[3])
      d == Sextet(q[4])
      b1 == (a * 4) + (b \div 16)
      b2 == ((b % 16) * 16) + (c \div 4)
      b3 == ((c % 4) * 64) + d
  IN  IF a < 0 \/ b < 0 THEN [ok |-> FALSE, bytes |-> <<>>]
      ELSE IF last /\ q[3] = 61 /\ q[4] = 61
        THEN (IF b % 16 = 0 THEN [ok |-> TRUE, bytes |-> <<b1>>]
              ELSE [ok |-> FALSE, bytes |-> <<>>])
      ELSE IF last /\ q[4] = 61
        THEN (IF c >= 0 /\ c % 4 = 0 THEN [ok |-> TRUE, bytes |-> <<b1, b2>>]
              ELSE [ok |-> FALSE, bytes |-> <<>>])
      ELSE IF c < 0 \/ d < 0 THEN [ok |-> FALSE, bytes |-> <<>>]
      ELSE [ok |-> TRUE, bytes |-> <<b1, b2, b3>>]

RECURSIVE Base64DecodeFrom(_, _, _)
Base64DecodeFrom(s, i, acc) ==
  IF i > Len(s) THEN [ok |-> TRUE, bytes |-> acc]
  ELSE LET r == Base64Quad(SubSeq(s, i, i + 3), i + 3 = Len(s))
       IN  IF r.ok THEN Base64DecodeFrom(s, i + 4, acc \o r.bytes)
           ELSE [ok |-> FALSE, bytes |-> <<>>]

\* Base64::decode_vec
Base64Decode(s) ==
  IF Len(s) % 4 # 0 THEN [ok |-> FALSE, bytes |-> <<>>]
  ELSE Base64DecodeFrom(s, 1, <<>>)


(***************************************************************************)
(* Wide integers: [neg, mag], mag the base-1000 limbs of the magnitude,    *)
(* most significant first, without leading zero limbs (zero is <<>>).      *)
(***************************************************************************)
RECURSIVE MagNorm(_)
MagNorm(m) == IF m # <<>> /\ Head(m) = 0 THEN MagNorm(Tail(m)) ELSE m

RECURSIVE MagLexLess(_, _)
\* a < b for magnitudes of the same length
MagLexLess(a, b) ==
  /\ a # <<>>
  /\ \/ Head(a) < Head(b)
     \/ Head(a) = Head(b) /\ MagLexLess(Tail(a), Tail(b))

MagLess(a, b) == Len(a) < Len(b) \/ (Len(a) = Len(b) /\ MagLexLess(a, b))

\* The limb of weight 1000^i (i = 0 the least significant), 0 beyond the top.
Limb(m, i) == IF i < Len(m) THEN m[Len(m) - i] ELSE 0

RECURSIVE MagAddFrom(_, _, _, _, _)
MagAddFrom(a, b, i, carry, acc) ==
  IF i >= Len(a) /\ i >= Len(b)
    THEN (IF carry = 0 THEN acc ELSE <<carry>> \o acc)
  ELSE LET t == Limb(a, i) + Limb(b, i) + carry
       IN  MagAddFrom(a, b, i + 1, t \div 1000, <<t % 1000>> \o acc)

MagAdd(a, b) == MagAddFrom(a, b, 0, 0, <<>>)

RECURSIVE MagSubFrom(_, _, _, _, _)
MagSubFrom(a, b, i, borrow, acc) ==
  IF i >= Len(a) THEN MagNorm(acc)
  ELSE LET t == Limb(a, i) - Limb(b, i) - borrow
       IN  IF t < 0 THEN MagSubFrom(a, b, i + 1, 1, <<t + 1000>> \o acc)
           ELSE MagSubFrom(a, b, i + 1, 0, <<t>> \o acc)

\* a - b for magnitudes with b <= a
MagSub(a, b) == MagSubFrom(a, b, 0, 0, <<>>)

Big(neg, mag) == [neg |-> neg /\ MagNorm(mag) # <<>>, mag |-> MagNorm(mag)]

BigNeg(x) == Big(~x.neg, x.mag)

BigAdd(x, y) ==
  IF x.neg = y.neg THEN Big(x.neg, MagAdd(x.mag, y.mag))
  ELSE IF MagLess(x.mag, y.mag) THEN Big(y.neg, MagSub(y.mag, x.mag))
  ELSE Big(x.neg, MagSub(x.mag, y.mag))

BigSub(x, y) == BigAdd(x, BigNeg(y))

\* x * 1000
BigMul1000(x) == Big(x.neg, x.mag \o <<0>>)

BigLess(x, y) ==
  IF x.neg /\ ~y.neg THEN TRUE
  ELSE IF ~x.neg /\ y.neg THEN FALSE
  ELSE IF x.neg THEN MagLess(y.mag, x.mag)
  ELSE MagLess(x.mag, y.mag)

BigLeq(x, y) == ~BigLess(y, x)

\* div_floor!(x, 1_000_000_000): the quotient rounded towards minus infinity.
BigDivFloor1e9(x) ==
  LET n == Len(x.mag)
      q == IF n <= 3 THEN <<>> ELSE SubSeq(x.mag, 1, n - 3)
      r == IF n <= 3 THEN x.mag ELSE MagNorm(SubSeq(x.mag, n - 2, n))
  IN  IF x.neg /\ r # <<>> THEN Big(TRUE, MagAdd(q, <<1>>)) ELSE Big(x.neg, q)


(***************************************************************************)
(* Results.                                                                *)
(***************************************************************************)
Ok(v) == [tag |-> "Ok", val |-> v]

Err(e) == [tag |-> "Err", err |-> e]

\* A panic (expect, unwrap, unimplemented!, a failed length assertion).
Panic(m) == [tag |-> "Panic", msg |-> m]

IsOk(r) == r.tag = "Ok"

IsErr(r) == r.tag = "Err"

IsPanic(r) == r.tag = "Panic"

(***************************************************************************)
(* SQLite values and rusqlite's typed column reads.                        *)
(***************************************************************************)
Text(s) == [type |-> "text", v |-> s]

Blob(b) == [type |-> "blob", v |-> b]

Integer(n) == [type |-> "integer", v |-> n]

\* NULL; v is only there to give every value of a column one shape.
Null(v) == [type |-> "null", v |-> v]

\* row.get::<_, T>(i) / ctx.get::<T>(i): the value when the column holds the
\* storage class T reads (String: TEXT, Vec<u8>: BLOB, i64/isize/bool:
\* INTEGER), else an InvalidColumnType error.
SqlGet(col, type) ==
  IF col.type = type THEN Ok(col.v) ELSE Err([kind |-> "InvalidColumnType"])

\* row.get::<_, i32>(i): an INTEGER that fits 32 bits, else an
\* IntegralValueOutOfRange error.
SqlGetI32(col) ==
  IF col.type # "integer" THEN Err([kind |-> "InvalidColumnType"])
  ELSE IF \/ BigLess(col.v, Big(TRUE, <<2, 147, 483, 648>>))
          \/ BigLess(Big(FALSE, <<2, 147, 483, 647>>), col.v)
    THEN Err([kind |-> "IntegralValueOutOfRange"])
  ELSE Ok(col.v)

(***************************************************************************)
(* Program constants.                                                      *)
(***************************************************************************)
\* Length of the header of the encrypted value, if present.
HEADER_LEN == 3

\* b"v10"
TagV10 == <<118, 49, 48>>

\* b"v11"
TagV11 == <<118, 49, 49>>

CHROME_V10_KEY ==
  <<253, 98, 31, 229, 162, 180, 2, 83, 157, 250, 20, 124, 169, 39, 39, 120>>

\* Size of initialization vector (and block) for AES 128-bit blocks.
IVBLOCK_SIZE_AES128 == 16

\* Size of the nonce for AES 256-bit.
AEAD_NONCE_SIZE == 12

\* Key length of Aes256Gcm (GenericArray<u8, U32>).
AES256_KEY_SIZE == 32

\* Length of the AES-GCM authentication tag that ends a ciphertext.
AEAD_TAG_SIZE == 16

\* b"DPAPI"
DPAPI_PREFIX == <<68, 80, 65, 80, 73>>

HASH_ROUNDS_LINUX == 1

HASH_ROUNDS_MAC == 1003

WINDOWS_UNIX_EPOCH_OFFSET_MICROS == Big(FALSE, <<11, 644, 473, 600, 0, 0>>)

\* The largest and smallest Unix timestamps of an OffsetDateTime
\* (9999-12-31T23:59:59Z and -9999-01-01T00:00:00Z).
MAX_TIMESTAMP == Big(FALSE, <<253, 402, 300, 799>>)

MIN_TIMESTAMP == Big(TRUE, <<377, 705, 116, 800>>)

\* cfg(target_os): linux; another unix that is not macos; macos; windows.
Platforms == {"linux", "posix", "macos", "windows"}

(***************************************************************************)
(* Timestamp codec.                                                        *)
(***************************************************************************)
\* 2^63 and 2^64, 2^127 and 2^128: the ranges of i64 and i128.
TwoPow63 == Big(FALSE, <<9, 223, 372, 36, 854, 775, 808>>)

TwoPow64 == Big(FALSE, <<18, 446, 744, 73, 709, 551, 616>>)

TwoPow127 == Big(FALSE, <<170, 141, 183, 460, 469, 231, 731, 687, 303, 715, 884, 105, 728>>)

TwoPow128 == Big(FALSE, <<340, 282, 366, 920, 938, 463, 463, 374, 607, 431, 768, 211, 456>>)

RECURSIVE WrapSigned(_, _, _)
\* The value of x in a signed type of range -half..half-1: x itself when it
\* fits, else x wrapped around modulo full = 2 * half.
WrapSigned(x, half, full) ==
  IF BigLess(x, BigNeg(half)) THEN WrapSigned(BigAdd(x, full), half, full)
  ELSE IF BigLeq(half, x) THEN WrapSigned(BigSub(x, full), half, full)
  ELSE x

\* The result of an i64 and of an i128 operation whose exact value is x.
I64(x) == WrapSigned(x, TwoPow63, TwoPow64)

I128(x) == WrapSigned(x, TwoPow127, TwoPow128)

\* The conversion carried out in 64-bit arithmetic.
chrome_to_unix_timestamp_nanos_i64(chrome_time) ==
  LET WINDOWS_UNIX_EPOCH_OFFSET_NANOS ==
        I64(BigMul1000(WINDOWS_UNIX_EPOCH_OFFSET_MICROS))
      nanos == I64(BigMul1000(chrome_time))
  IN  I64(BigSub(nanos, WINDOWS_UNIX_EPOCH_OFFSET_NANOS))

\* chrome_to_unix_timestamp_nanos: i64 microseconds since 1601 to i128
\* nanoseconds since 1970, each operation in i128.
chrome_to_unix_timestamp_nanos(chrome_time) ==
  LET WINDOWS_UNIX_EPOCH_OFFSET_NANOS ==
        I128(BigMul1000(WINDOWS_UNIX_EPOCH_OFFSET_MICROS))
      nanos == I128(BigMul1000(chrome_time))
  IN  I128(BigSub(nanos, WINDOWS_UNIX_EPOCH_OFFSET_NANOS))

\* OffsetDateTime::from_unix_timestamp: the instant, or a ComponentRange
\* error outside MIN_TIMESTAMP..=MAX_TIMESTAMP.
from_unix_timestamp(seconds) ==
  IF BigLeq(MIN_TIMESTAMP, seconds) /\ BigLeq(seconds, MAX_TIMESTAMP)
    THEN Ok(seconds)
  ELSE Err([kind |-> "ComponentRange"])

\* OffsetDateTime::from_unix_timestamp_nanos: the range check is that of
\* from_unix_timestamp on the floored seconds; the instant keeps the nanos.
from_unix_timestamp_nanos(nanos) ==
  IF IsOk(from_unix_timestamp(BigDivFloor1e9(nanos))) THEN Ok(nanos)
  ELSE Err([kind |-> "ComponentRange"])


(***************************************************************************)
(* Value decryptor.  The block cipher, the AEAD and the OS primitives are  *)
(* libraries outside the repository: each call takes the library's answer  *)
(* for well-formed input as a parameter, None for a failure (bad padding,  *)
(* failed authentication, CryptUnprotectData error) or Some(bytes).        *)
(***************************************************************************)
\* A decrypt_value whose padding scheme takes an input of no block for an
\* empty plaintext.
decrypt_value_unix_ambiguous(key, encrypted_value, lib) ==
  IF Len(key) # IVBLOCK_SIZE_AES128 THEN Panic("key length")
  ELSE IF Len(encrypted_value) = 0 THEN Ok(<<>>)
  ELSE IF Len(encrypted_value) % IVBLOCK_SIZE_AES128 # 0 \/ lib = None
    THEN Err([kind |-> "InvalidInputLength"])
  ELSE LET text == from_utf8(Unwrap(lib))
       IN  IF text.ok THEN Ok(text.text) ELSE Err([kind |-> "InvalidUtf8"])

\* decrypt_value on Unix: AES-128-CBC, PKCS7, IV of 16 spaces.
decrypt_value_unix(key, encrypted_value, lib) ==
  IF Len(key) # IVBLOCK_SIZE_AES128 THEN Panic("key length")
  ELSE IF \/ Len(encrypted_value) = 0
          \/ Len(encrypted_value) % IVBLOCK_SIZE_AES128 # 0
          \/ lib = None
    THEN Err([kind |-> "InvalidInputLength"])
  ELSE LET text == from_utf8(Unwrap(lib))
       IN  IF text.ok THEN Ok(text.text) ELSE Err([kind |-> "InvalidUtf8"])

\* A decrypt_value that returns an empty string when the cipher rejects the
\* input.
decrypt_value_windows_unchecked(key, encrypted_value, lib) ==
  IF Len(key) # AES256_KEY_SIZE THEN Panic("key length")
  ELSE IF lib = None THEN Ok(<<>>)
  ELSE LET text == from_utf8(Unwrap(lib))
       IN  IF text.ok THEN Ok(text.text) ELSE Err([kind |-> "InvalidUtf8"])

\* decrypt_value on Windows: AES-256-GCM, nonce in the first 12 bytes.
decrypt_value_windows(key, encrypted_value, lib) ==
  IF Len(key) # AES256_KEY_SIZE THEN Panic("key length")
  ELSE LET nonce == GetTo(encrypted_value, AEAD_NONCE_SIZE)
           ciphertext == GetFrom(encrypted_value, AEAD_NONCE_SIZE)
       IN  IF nonce = None \/ ciphertext = None
             THEN Err([kind |-> "InvalidInputLength"])
           ELSE IF Len(Unwrap(ciphertext)) < AEAD_TAG_SIZE \/ lib = None
             THEN Err([kind |-> "InvalidInput"])
           ELSE LET text == from_utf8(Unwrap(lib))
                IN  IF text.ok THEN Ok(text.text)
                    ELSE Err([kind |-> "InvalidUtf8"])

decrypt_value(platform, key, encrypted_value, lib) ==
  IF platform = "windows" THEN decrypt_value_windows(key, encrypted_value, lib)
  ELSE decrypt_value_unix(key, encrypted_value, lib)

\* PBKDF2-HMAC-SHA1 over "saltysalt" to 128 bits.  The model's stand-in is
\* an injective mixing of password and round count into 16 bytes.
derive_key_from_password(password, rounds) ==
  [i \in 1..(128 \div 8) |->
     (password[((i - 1) % Len(password)) + 1] + rounds + i) % 256]

\* linux::get_v11_key; the keyring holds the password of the manager's
\* variant under its application entry, or nothing.
get_v11_key(keyring) ==
  IF keyring = None THEN Err([kind |-> "Keyring"])
  ELSE Ok(derive_key_from_password(Unwrap(keyring), HASH_ROUNDS_LINUX))

\* mac::get_v10_key
get_v10_key(keyring) ==
  IF keyring = None THEN Err([kind |-> "KeychainGetPassword"])
  ELSE Ok(derive_key_from_password(Unwrap(keyring), HASH_ROUNDS_MAC))

\* windows::decrypt_dpapi: CryptUnprotectData on the buffer.
decrypt_dpapi(encrypted_value, os) ==
  IF os = None THEN Err([kind |-> "UnknownError"]) ELSE Ok(Unwrap(os))

\* windows::get_encrypted_key
get_encrypted_key(local_state) == local_state.encrypted_key

\* The buffer decrypt_dpapi_encrypted_key hands to decrypt_dpapi.
stripped_encrypted_key(encrypted_key) ==
  Unwrap(GetFrom(encrypted_key, Len(DPAPI_PREFIX) - 1))

\* windows::decrypt_dpapi_encrypted_key: [res, dpapi_in], dpapi_in the
\* buffer handed to decrypt_dpapi (None when it is not called).
decrypt_dpapi_encrypted_key(encrypted_key, os) ==
  LET decoded == Base64Decode(encrypted_key)
  IN  IF ~decoded.ok
        THEN [res |-> Err([kind |-> "InvalidKeyFormat"]), dpapi_in |-> None]
      ELSE IF ~StartsWith(decoded.bytes, DPAPI_PREFIX)
        THEN [res |-> Err([kind |-> "InvalidKeyPrefix"]), dpapi_in |-> None]
      ELSE LET stripped == stripped_encrypted_key(decoded.bytes)
               out == decrypt_dpapi(stripped, os)
           IN  [res |-> IF IsOk(out) THEN out
                        ELSE Err([kind |-> "DecryptError"]),
                dpapi_in |-> Some(stripped)]

\* ChromeManager::get_local_state
get_local_state(local_state) ==
  IF local_state.file = "json" THEN Ok(local_state)
  ELSE Err([kind |-> "LocalState", key_variant |-> "", source |-> local_state.file])

\* The closure the Windows reader initializes the key cache with.
windows_key_init(local_state, os) ==
  LET state == get_local_state(local_state)
  IN  IF ~IsOk(state) THEN [res |-> state, dpapi_in |-> None]
      ELSE LET encrypted_key == get_encrypted_key(state.val)
           IN  IF encrypted_key = None
                 THEN [res |-> Err([kind |-> "KeyNotFound", key_variant |-> "",
                                    source |-> ""]),
                       dpapi_in |-> None]
               ELSE LET k == decrypt_dpapi_encrypted_key(Unwrap(encrypted_key), os)
                    IN  [res |-> IF IsOk(k.res) THEN k.res
                                 ELSE Err([kind |-> "GetKey", key_variant |-> "v10",
                                           source |-> k.res.err.kind]),
                         dpapi_in |-> k.dpapi_in]

\* A cell that runs its initializer on every call, filled or not.
get_or_try_init_every_time(cell, init) ==
  IF IsOk(init) THEN [cell |-> Some(init.val), res |-> init, ran |-> TRUE]
  ELSE [cell |-> cell, res |-> init, ran |-> TRUE]

\* A cell that a failed initializer fills too, with an empty value.
get_or_try_init_keep_failure(cell, init) ==
  IF IsSome(cell) THEN [cell |-> cell, res |-> Ok(Unwrap(cell)), ran |-> FALSE]
  ELSE IF IsOk(init) THEN [cell |-> Some(init.val), res |-> init, ran |-> TRUE]
  ELSE [cell |-> Some(<<>>), res |-> init, ran |-> TRUE]

\* A cell that hands its value out with take(), and is empty afterwards.
get_or_try_init_take(cell, init) ==
  IF IsSome(cell) THEN [cell |-> None, res |-> Ok(Unwrap(cell)), ran |-> FALSE]
  ELSE IF IsOk(init) THEN [cell |-> Some(init.val), res |-> init, ran |-> TRUE]
  ELSE [cell |-> cell, res |-> init, ran |-> TRUE]

\* OnceCell::get_or_try_init: the cell afterwards, the value or the error of
\* the initializer, and whether the initializer ran.
get_or_try_init(cell, init) ==
  IF IsSome(cell) THEN [cell |-> cell, res |-> Ok(Unwrap(cell)), ran |-> FALSE]
  ELSE IF IsOk(init) THEN [cell |-> Some(init.val), res |-> init, ran |-> TRUE]
  ELSE [cell |-> cell, res |-> init, ran |-> TRUE]


\* A DecryptChromeCookieError.
DErr(kind, key_variant, source) ==
  [kind |-> kind, key_variant |-> key_variant, source |-> source]

\* One record of what a decrypt call did: a credential lookup ("lookup"), a
\* cipher call ("cipher") or a DPAPI unwrap ("dpapi"), with its key and input.
Event(op, key, data) == [op |-> op, key |-> key, data |-> data]

\* A branch that expects at least one byte after the header.
decrypt_with_key_nonempty(platform, key, encrypted_value, lib, cache, log) ==
  LET data == IF Len(encrypted_value) <= HEADER_LEN THEN None
              ELSE GetFrom(encrypted_value, HEADER_LEN)
  IN  IF data = None
        THEN [res |-> IF platform \in {"linux", "posix"}
                        THEN Panic("No data after the header")
                      ELSE Err(DErr("InvalidInputLength", "", "")),
              cache |-> cache, log |-> log]
      ELSE LET r == decrypt_value(platform, key, Unwrap(data), lib)
           IN  [res |-> IF IsErr(r)
                          THEN Err(DErr("CookieValueDecrypt", "", r.err.kind))
                        ELSE r,
                cache |-> cache,
                log |-> Append(log, Event("cipher", key, Unwrap(data)))]

\* The branch of decrypt_cookie_value taken when a key was selected.
decrypt_with_key(platform, key, encrypted_value, lib, cache, log) ==
  LET data == GetFrom(encrypted_value, HEADER_LEN)
  IN  IF data = None
        THEN [res |-> IF platform \in {"linux", "posix"}
                        THEN Panic("No data after the header")
                      ELSE Err(DErr("InvalidInputLength", "", "")),
              cache |-> cache, log |-> log]
      ELSE LET r == decrypt_value(platform, key, Unwrap(data), lib)
           IN  [res |-> IF IsErr(r)
                          THEN Err(DErr("CookieValueDecrypt", "", r.err.kind))
                        ELSE r,
                cache |-> cache,
                log |-> Append(log, Event("cipher", key, Unwrap(data)))]

\* A branch that replaces what is not UTF-8 by U+FFFD in place of failing.
decrypt_without_key_lossy(encrypted_value, cache) ==
  LET text == from_utf8(encrypted_value)
  IN  [res |-> IF text.ok THEN Ok(text.text) ELSE Ok(<<65533>>),
       cache |-> cache, log |-> <<>>]

\* The Unix branch taken when no key was selected: the bytes are the text.
decrypt_without_key(encrypted_value, cache) ==
  LET text == from_utf8(encrypted_value)
  IN  [res |-> IF text.ok THEN Ok(text.text)
               ELSE Err(DErr("CookieValueUtf8Decode", "", "FromUtf8Error")),
       cache |-> cache, log |-> <<>>]

\* The events of a run of get_or_try_init: a lookup when the initializer
\* ran, and the DPAPI unwrap of the key when it got that far.
init_events(c, dpapi_in) ==
  IF ~c.ran THEN <<>>
  ELSE IF dpapi_in = None THEN <<Event("lookup", <<>>, <<>>)>>
  ELSE <<Event("lookup", <<>>, <<>>), Event("dpapi", <<>>, Unwrap(dpapi_in))>>

\* The branch of a tag whose key lives in the key cache: c is the outcome
\* of get_or_try_init, err the error a failed initializer is mapped to.
decrypt_with_cached_key(platform, c, err, dpapi_in, encrypted_value, lib) ==
  IF IsOk(c.res)
    THEN decrypt_with_key(platform, c.res.val, encrypted_value, lib, c.cell,
                          init_events(c, dpapi_in))
  ELSE [res |-> Err(err), cache |-> c.cell, log |-> init_events(c, dpapi_in)]

\* The error of a failed initializer on Linux and macOS: GetKey with the
\* key_variant the source names, wrapping the initializer's error.
GetKeyErr(key_variant, res) ==
  DErr("GetKey", key_variant, IF IsErr(res) THEN res.err.kind ELSE "")

\* The error of a failed initializer on Windows: the initializer's own.
InitErr(res) == IF IsErr(res) THEN res.err ELSE DErr("", "", "")

\* A Linux reader that decrypts a v11 value with the default key when the
\* keyring has no password.
decrypt_cookie_value_posix_fallback(platform, key_cache, keyring, encrypted_value, lib) ==
  IF GetTo(encrypted_value, HEADER_LEN) = Some(TagV11) /\ platform = "linux"
    THEN IF IsSome(key_cache) \/ IsSome(keyring)
           THEN decrypt_with_cached_key(platform,
                  get_or_try_init(key_cache, get_v11_key(keyring)),
                  GetKeyErr("v11", get_v11_key(keyring)), None,
                  encrypted_value, lib)
         ELSE decrypt_with_key(platform, CHROME_V10_KEY, encrypted_value, lib,
                               key_cache, <<Event("lookup", <<>>, <<>>)>>)
  ELSE IF GetTo(encrypted_value, HEADER_LEN) = Some(TagV11)
    THEN [res |-> Panic("v11 key is not implemented for this platform"),
          cache |-> key_cache, log |-> <<>>]
  ELSE IF GetTo(encrypted_value, HEADER_LEN) = Some(TagV10)
    THEN decrypt_with_key(platform, CHROME_V10_KEY, encrypted_value, lib,
                          key_cache, <<>>)
  ELSE decrypt_without_key(encrypted_value, key_cache)

\* ChromeManager::decrypt_cookie_value, cfg(all(unix, not(macos)))
decrypt_cookie_value_posix(platform, key_cache, keyring, encrypted_value, lib) ==
  IF GetTo(encrypted_value, HEADER_LEN) = Some(TagV11) /\ platform = "linux"
    THEN decrypt_with_cached_key(platform,
           get_or_try_init(key_cache, get_v11_key(keyring)),
           GetKeyErr("v11", get_v11_key(keyring)), None, encrypted_value, lib)
  ELSE IF GetTo(encrypted_value, HEADER_LEN) = Some(TagV11)
    THEN [res |-> Panic("v11 key is not implemented for this platform"),
          cache |-> key_cache, log |-> <<>>]
  ELSE IF GetTo(encrypted_value, HEADER_LEN) = Some(TagV10)
    THEN decrypt_with_key(platform, CHROME_V10_KEY, encrypted_value, lib,
                          key_cache, <<>>)
  ELSE decrypt_without_key(encrypted_value, key_cache)

\* ChromeManager::decrypt_cookie_value, cfg(target_os = "macos")
decrypt_cookie_value_macos(platform, key_cache, keyring, encrypted_value, lib) ==
  IF GetTo(encrypted_value, HEADER_LEN) = Some(TagV10)
    THEN decrypt_with_cached_key(platform,
           get_or_try_init(key_cache, get_v10_key(keyring)),
           GetKeyErr("v11", get_v10_key(keyring)), None, encrypted_value, lib)
  ELSE decrypt_without_key(encrypted_value, key_cache)

\* The Windows branch taken when no key was selected: the stored bytes are
\* unwrapped with DPAPI; raw is the outcome of decrypt_dpapi.
decrypt_dpapi_value(encrypted_value, raw, cache) ==
  [res |-> IF IsErr(raw) THEN Err(DErr("CookieValueDecrypt", "", raw.err.kind))
           ELSE IF from_utf8(raw.val).ok THEN Ok(from_utf8(raw.val).text)
           ELSE Err(DErr("CookieValueUtf8Decode", "", "FromUtf8Error")),
   cache |-> cache,
   log |-> <<Event("dpapi", <<>>, encrypted_value)>>]

\* The v10 branch on Windows, init the outcome of the initializer.
decrypt_v10_windows(platform, key_cache, init, encrypted_value, lib) ==
  decrypt_with_cached_key(platform, get_or_try_init(key_cache, init.res),
                          InitErr(init.res), init.dpapi_in, encrypted_value, lib)

\* A Windows reader that picks the DPAPI branch for every value when the
\* local state holds no encrypted_key, and goes by the tag otherwise.
decrypt_cookie_value_windows_by_state(platform, key_cache, local_state, encrypted_value, os_key, lib) ==
  IF /\ GetTo(encrypted_value, HEADER_LEN) = Some(TagV10)
     /\ get_encrypted_key(local_state) # None
    THEN decrypt_v10_windows(platform, key_cache,
                             windows_key_init(local_state, os_key),
                             encrypted_value, lib)
  ELSE decrypt_dpapi_value(encrypted_value, decrypt_dpapi(encrypted_value, lib),
                           key_cache)

\* ChromeManager::decrypt_cookie_value, cfg(windows)
decrypt_cookie_value_windows(platform, key_cache, local_state, encrypted_value, os_key, lib) ==
  IF GetTo(encrypted_value, HEADER_LEN) = Some(TagV10)
    THEN decrypt_v10_windows(platform, key_cache,
                             windows_key_init(local_state, os_key),
                             encrypted_value, lib)
  ELSE decrypt_dpapi_value(encrypted_value, decrypt_dpapi(encrypted_value, lib),
                           key_cache)

\* decrypt_cookie_value of the build for `platform`: [res, cache, log].
\* env is the OS state read ([keyring, local_state]); orc the libraries'
\* answers ([os_key, lib]).
decrypt_cookie_value(platform, key_cache, env, encrypted_value, orc) ==
  IF platform = "windows"
    THEN decrypt_cookie_value_windows(platform, key_cache, env.local_state,
                                      encrypted_value, orc.os_key, orc.lib)
  ELSE IF platform = "macos"
    THEN decrypt_cookie_value_macos(platform, key_cache, env.keyring,
                                    encrypted_value, orc.lib)
  ELSE decrypt_cookie_value_posix(platform, key_cache, env.keyring,
                                  encrypted_value, orc.lib)


(***************************************************************************)
(* The query: rusqlite's Rows over "... WHERE host_filter(host)".          *)
(***************************************************************************)
\* A predicate that accepts every host, as a query without its WHERE clause.
host_filter_any(filter, host) ==
  LET h == SqlGet(host, "text")
  IN  IF IsOk(h) THEN Ok(TRUE) ELSE h

\* The scalar function both readers register: the shared predicate applied
\* to the row's host, an error when the argument is not TEXT.  A predicate
\* is the set of the hosts it accepts.
host_filter(filter, host) ==
  LET h == SqlGet(host, "text")
  IN  IF IsOk(h) THEN Ok(h.val \in filter) ELSE h

RECURSIVE query_rows(_, _, _, _)
\* The steps of the statement over the table, in table order: Ok(i) for
\* each row i the predicate accepts; an error raised by host_filter fails
\* the step, is yielded once, and ends the iteration (Rows::advance resets
\* and drops the statement).
query_rows(hosts, filter, i, acc) ==
  IF i > Len(hosts) THEN acc
  ELSE LET f == host_filter(filter, hosts[i])
       IN  IF IsErr(f) THEN Append(acc, Err([kind |-> "SqliteFailure"]))
           ELSE IF f.val THEN query_rows(hosts, filter, i + 1, Append(acc, Ok(i)))
           ELSE query_rows(hosts, filter, i + 1, acc)

\* Iterator::filter_map(|c| c.ok()): the Ok items in order, the Err items
\* dropped.  A panic of the mapping closure is not an item: it unwinds
\* through the iterator, and is kept here for the consumer to meet in its
\* place.
filter_map_ok(items) == SelectSeq(items, LAMBDA r : ~IsErr(r))

\* match same_site { 0 => SameSite::None, 1 => SameSite::Lax,
\*                   _ => SameSite::Strict }
SameSiteOf(same_site) ==
  IF same_site = Big(FALSE, <<>>) THEN "None"
  ELSE IF same_site = Big(FALSE, <<1>>) THEN "Lax"
  ELSE "Strict"

(***************************************************************************)
(* ChromeManager::get_cookies                                              *)
(***************************************************************************)
\* The closure of query_map: the row's columns read in order into a
\* ChromeCookie (row: the index of the row in the table, for reference).
chrome_row(row, i) ==
  IF \/ IsErr(SqlGet(row.name, "text"))
     \/ IsErr(SqlGet(row.value, "text"))
     \/ IsErr(SqlGet(row.encrypted_value, "blob"))
     \/ IsErr(SqlGet(row.host_key, "text"))
     \/ IsErr(SqlGet(row.path, "text"))
     \/ IsErr(SqlGet(row.expires_utc, "integer"))
     \/ IsErr(SqlGet(row.is_secure, "integer"))
     \/ IsErr(SqlGet(row.samesite, "integer"))
     \/ IsErr(SqlGet(row.is_httponly, "integer"))
    THEN Err([kind |-> "InvalidColumnType"])
  ELSE Ok([name |-> row.name.v, value |-> row.value.v,
           encrypted_value |-> row.encrypted_value.v, host |-> row.host_key.v,
           path |-> row.path.v, expires |-> row.expires_utc.v,
           secure |-> row.is_secure.v # 0, same_site |-> row.samesite.v,
           http_only |-> row.is_httponly.v # 0, row |-> i])

\* stmt.query_map([], ...): the items the mapped rows yield.
chrome_query_map(db, filter) ==
  LET steps == query_rows([i \in DOMAIN db |-> db[i].host_key], filter, 1, <<>>)
  IN  [k \in DOMAIN steps |->
         IF IsOk(steps[k]) THEN chrome_row(db[steps[k].val], steps[k].val)
         ELSE steps[k]]

\* A decrypt_cookie_value call with its return recorded after what it did:
\* an event whose op is the tag of the outcome ("Ok", "Err", "Panic").
decrypt_call(d) ==
  [res |-> d.res, cache |-> d.cache,
   log |-> Append(d.log, Event(d.res.tag, <<>>, <<>>))]

\* A closure that decrypts encrypted_value whether it is empty or not.
chrome_cookie_value_decrypt_all(platform, key_cache, env, c, orc) ==
  decrypt_call(
    decrypt_cookie_value(platform, key_cache, env, c.encrypted_value,
                         [os_key |-> orc.os_key, lib |-> orc.rows[c.row]]))

\* The value of a row's cookie: the value column when encrypted_value is
\* empty, else the decrypted encrypted_value.  [res, cache, log].
chrome_cookie_value(platform, key_cache, env, c, orc) ==
  IF c.encrypted_value = <<>>
    THEN [res |-> Ok(c.value), cache |-> key_cache, log |-> <<>>]
  ELSE decrypt_call(
         decrypt_cookie_value(platform, key_cache, env, c.encrypted_value,
                              [os_key |-> orc.os_key, lib |-> orc.rows[c.row]]))

\* The events of one row's decrypt call, each marked with the row.
row_events(events, row) ==
  [j \in DOMAIN events |->
     [op |-> events[j].op, key |-> events[j].key, data |-> events[j].data,
      row |-> row]]

\* CookieBuilder::new(name, value): a cookie none of whose optional
\* parameters is set.  (row: the row the cookie is built from, for
\* reference.)
CookieBuilder_new(name, value, row) ==
  [name |-> name, value |-> value, domain |-> None, path |-> None,
   expires |-> None, secure |-> None, same_site |-> None, http_only |-> None,
   row |-> row]

\* Expiration::from(OffsetDateTime), and Expiration::datetime.
Expiration_from(date) == [tag |-> "DateTime", at |-> date]

Expiration_datetime(e) == IF e.tag = "DateTime" THEN Some(e.at) ELSE None

\* The builder chain of the Chrome reader with its .path(path) left out.
chrome_cookie_no_path(c, value, date) ==
  IF IsErr(date) THEN Panic("Invalid date")
  ELSE Ok([CookieBuilder_new(c.name, value, c.row) EXCEPT
             !.domain = Some(c.host),
             !.expires = Some(Expiration_from(date.val)),
             !.secure = Some(c.secure),
             !.same_site = Some(SameSiteOf(c.same_site)),
             !.http_only = Some(c.http_only)])

\* CookieBuilder::new(name, value)...: the cookie of ChromeCookie c with
\* value `value`, or the panic of expect("Invalid date").
chrome_cookie(c, value, date) ==
  IF IsErr(date) THEN Panic("Invalid date")
  ELSE Ok([CookieBuilder_new(c.name, value, c.row) EXCEPT
             !.domain = Some(c.host),
             !.path = Some(c.path),
             !.expires = Some(Expiration_from(date.val)),
             !.secure = Some(c.secure),
             !.same_site = Some(SameSiteOf(c.same_site)),
             !.http_only = Some(c.http_only)])

RECURSIVE chrome_collect(_, _, _, _, _, _)
RECURSIVE chrome_collect_row(_, _, _, _, _, _, _, _)
\* .map(...).collect::<Result<Vec<_>, _>>(): the rows turned into cookies in
\* order, stopping at the first error.  acc is [cache, cookies, log].
chrome_collect(platform, env, orc, rows, k, acc) ==
  IF k > Len(rows)
    THEN [res |-> Ok(acc.cookies), cache |-> acc.cache, log |-> acc.log]
  ELSE chrome_collect_row(platform, env, orc, rows, k, acc, rows[k].val,
         chrome_cookie_value(platform, acc.cache, env, rows[k].val, orc))

\* A map closure that swallows the error of a row's value and goes on to
\* the next row, in place of the closure's `?`.
chrome_collect_row_lossy(platform, env, orc, rows, k, acc, c, d) ==
  IF IsPanic(d.res)
    THEN [res |-> d.res, cache |-> d.cache,
          log |-> acc.log \o row_events(d.log, c.row)]
  ELSE IF IsErr(d.res)
    THEN chrome_collect(platform, env, orc, rows, k + 1,
           [cache |-> d.cache, cookies |-> acc.cookies,
            log |-> acc.log \o row_events(d.log, c.row)])
  ELSE IF IsPanic(chrome_cookie(c, d.res.val,
            from_unix_timestamp_nanos(chrome_to_unix_timestamp_nanos(c.expires))))
    THEN [res |-> Panic("Invalid date"), cache |-> d.cache,
          log |-> acc.log \o row_events(d.log, c.row)]
  ELSE chrome_collect(platform, env, orc, rows, k + 1,
         [cache |-> d.cache,
          cookies |-> Append(acc.cookies,
            chrome_cookie(c, d.res.val,
              from_unix_timestamp_nanos(
                chrome_to_unix_timestamp_nanos(c.expires))).val),
          log |-> acc.log \o row_events(d.log, c.row)])

\* The closure of map for ChromeCookie c, d the outcome of its value.
chrome_collect_row(platform, env, orc, rows, k, acc, c, d) ==
  IF IsPanic(d.res)
    THEN [res |-> d.res, cache |-> d.cache,
          log |-> acc.log \o row_events(d.log, c.row)]
  ELSE IF IsErr(d.res)
    THEN [res |-> Err([kind |-> "CookieValueDecrypt", source |-> d.res.err]),
          cache |-> d.cache, log |-> acc.log \o row_events(d.log, c.row)]
  ELSE IF IsPanic(chrome_cookie(c, d.res.val,
            from_unix_timestamp_nanos(chrome_to_unix_timestamp_nanos(c.expires))))
    THEN [res |-> Panic("Invalid date"), cache |-> d.cache,
          log |-> acc.log \o row_events(d.log, c.row)]
  ELSE chrome_collect(platform, env, orc, rows, k + 1,
         [cache |-> d.cache,
          cookies |-> Append(acc.cookies,
            chrome_cookie(c, d.res.val,
              from_unix_timestamp_nanos(
                chrome_to_unix_timestamp_nanos(c.expires))).val),
          log |-> acc.log \o row_events(d.log, c.row)])

\* ChromeManager::get_cookies: [res, cache, log].
chrome_get_cookies(platform, db, filter, key_cache, env, orc) ==
  chrome_collect(platform, env, orc,
                 filter_map_ok(chrome_query_map(db, filter)), 1,
                 [cache |-> key_cache, cookies |-> <<>>, log |-> <<>>])

(***************************************************************************)
(* FirefoxManager::get_cookies                                             *)
(***************************************************************************)
\* The closure of query_map: the columns are read in the order of the
\* builder calls, the expiry converted (expect) before isSecure is read.
firefox_row(row, i) ==
  IF \/ IsErr(SqlGet(row.name, "text"))
     \/ IsErr(SqlGet(row.value, "text"))
     \/ IsErr(SqlGet(row.host, "text"))
     \/ IsErr(SqlGet(row.path, "text"))
     \/ IsErr(SqlGet(row.expiry, "integer"))
    THEN Err([kind |-> "InvalidColumnType"])
  ELSE IF IsErr(from_unix_timestamp(row.expiry.v))
    THEN Panic("Invalid timestamp")
  ELSE IF IsErr(SqlGet(row.isSecure, "integer"))
    THEN Err([kind |-> "InvalidColumnType"])
  ELSE IF IsErr(SqlGetI32(row.sameSite))
    THEN SqlGetI32(row.sameSite)
  ELSE IF IsErr(SqlGet(row.isHttpOnly, "integer"))
    THEN Err([kind |-> "InvalidColumnType"])
  ELSE Ok([CookieBuilder_new(row.name.v, row.value.v, i) EXCEPT
             !.domain = Some(row.host.v),
             !.path = Some(row.path.v),
             !.expires = Some(Expiration_from(
                           BigMul1000(BigMul1000(BigMul1000(row.expiry.v))))),
             !.secure = Some(row.isSecure.v # 0),
             !.same_site = Some(SameSiteOf(row.sameSite.v)),
             !.http_only = Some(row.isHttpOnly.v # 0)])

firefox_query_map(db, filter) ==
  LET steps == query_rows([i \in DOMAIN db |-> db[i].host], filter, 1, <<>>)
  IN  [k \in DOMAIN steps |->
         IF IsOk(steps[k]) THEN firefox_row(db[steps[k].val], steps[k].val)
         ELSE steps[k]]

\* FirefoxManager::get_cookies: the result of the call.
firefox_get_cookies(db, filter) ==
  LET items == filter_map_ok(firefox_query_map(db, filter))
      panics == {k \in DOMAIN items : items[k].tag = "Panic"}
  IN  IF panics # {} THEN items[CHOOSE k \in panics : \A j \in panics : k <= j]
      ELSE Ok([k \in DOMAIN items |-> items[k].val])


(***************************************************************************)
(* The tables, predicates and OS states the model draws from.              *)
(***************************************************************************)
\* "PE"
TextPE == <<80, 69>>

\* Stored ciphertext of two cipher blocks: a whole number of CBC blocks,
\* and room for the nonce and the tag of the AEAD.
Ciphertext == [i \in 1..(IVBLOCK_SIZE_AES128 + IVBLOCK_SIZE_AES128) |-> 200 + i]

\* 2022-..: a Chrome expiry in range; i64::MAX, far out of range.
ExpiresInRange == Big(FALSE, <<13, 300, 0, 0, 0, 0>>)

ExpiresMax == Big(FALSE, <<9, 223, 372, 36, 854, 775, 807>>)

ChromeRow(host_key, value, encrypted_value, expires_utc) ==
  [name |-> Text("n"), value |-> value, encrypted_value |-> encrypted_value,
   host_key |-> host_key, path |-> Text("/"), expires_utc |-> expires_utc,
   is_secure |-> Integer(1), samesite |-> Integer(Big(FALSE, <<1>>)),
   is_httponly |-> Integer(0)]

\* The stored values the rows carry: empty; v10 and v11 with ciphertext;
\* v10 with nothing after the tag; untagged 2-byte UTF-8 text; untagged
\* invalid UTF-8; text with an unknown 3-byte tag ("v12A").
EncryptedValues ==
  {<<>>, TagV10 \o Ciphertext, TagV11 \o Ciphertext, TagV10,
   <<195, 169>>, <<255>>, <<118, 49, 50, 65>>}

ChromeRows ==
  {ChromeRow(Text("a.com"), Text(TextPE), Blob(e), Integer(ExpiresInRange)) :
     e \in EncryptedValues}
  \cup {ChromeRow(Text("b.org"), Text(TextPE), Blob(TagV11 \o Ciphertext),
                  Integer(ExpiresInRange)),
        ChromeRow(Null(""), Text(TextPE), Blob(<<>>), Integer(ExpiresInRange)),
        ChromeRow(Text("a.com"), Null(<<>>), Blob(<<>>), Integer(ExpiresInRange)),
        ChromeRow(Text("a.com"), Text(TextPE), Blob(<<>>), Integer(ExpiresMax))}

FirefoxRow(host, value, expiry, isSecure) ==
  [name |-> Text("n"), value |-> value, host |-> host, path |-> Text("/"),
   expiry |-> expiry, isSecure |-> isSecure, sameSite |-> Integer(Big(FALSE, <<>>)),
   isHttpOnly |-> Integer(1)]

FirefoxRows ==
  {FirefoxRow(Text(h), Text(TextPE), Integer(e), Integer(1)) :
     h \in {"a.com", "b.org"},
     e \in {Big(FALSE, <<1, 700, 0, 0>>), MAX_TIMESTAMP,
            BigAdd(MAX_TIMESTAMP, Big(FALSE, <<1>>))}}
  \cup {FirefoxRow(Null(""), Text(TextPE), Integer(MAX_TIMESTAMP), Integer(1)),
        FirefoxRow(Text("a.com"), Null(<<>>), Integer(MAX_TIMESTAMP), Integer(1)),
        FirefoxRow(Text("a.com"), Text(TextPE), Null(MAX_TIMESTAMP), Integer(1)),
        FirefoxRow(Text("a.com"), Text(TextPE), Integer(MAX_TIMESTAMP), Null(0))}

\* The tables of at most MaxRows rows over a set of rows.
Tables(rows) == UNION {[1..n -> rows] : n \in 0..MaxRows}

\* The predicates: every host, and the hosts of a.com only.
Filters == {{"a.com", "b.org"}, {"a.com"}}

\* The password the credential store holds for the browser, if any.
Keyrings == {None, Some(<<112, 119, 49>>)}

\* base64 of "DPAPI" 1 2 3 4; of "XPAPI" 1 2; and a text that is not base64.
EncryptedKeys ==
  {<<82, 70, 66, 66, 85, 69, 107, 66, 65, 103, 77, 69>>,
   <<87, 70, 66, 66, 85, 69, 107, 66, 65, 103, 61, 61>>,
   <<82, 65, 61>>}

\* The local-state file: missing, or a JSON object with or without
\* os_crypt.encrypted_key.
LocalStates ==
  {[file |-> "missing", encrypted_key |-> None],
   [file |-> "json", encrypted_key |-> None]}
  \cup {[file |-> "json", encrypted_key |-> Some(k)] : k \in EncryptedKeys}

NoLocalState == [file |-> "missing", encrypted_key |-> None]

\* What CryptUnprotectData answers for the wrapped key: a failure, a
\* 256-bit key, or a buffer of another length.
OsKeyOutcomes ==
  {None, Some([i \in 1..AES256_KEY_SIZE |-> i]), Some(<<1, 2, 3, 4>>)}

\* What a cipher or DPAPI call on a row's value answers: a failure, the
\* bytes of "PE", or bytes that are not UTF-8.
LibOutcomes == {None, Some(TextPE), Some(<<255>>)}

(***************************************************************************)
(* State.                                                                  *)
(***************************************************************************)
(***************************************************************************)
(* get_connection (lib.rs).  A path is the sequence of the parts pushed    *)
(* into it; fs0 is the set of files that exist.                            *)
(***************************************************************************)
\* The cookie database of the profile.
DbFile == <<"Cookies">>

\* Connection::open_with_flags: the connection, and the files afterwards.
\* With SQLITE_OPEN_URI a path that starts with "file:" is a URI, its
\* parameters after the file name; a file that does not exist is created
\* only with SQLITE_OPEN_CREATE.
open_with_flags(fs0, path, flags) ==
  LET uri == "SQLITE_OPEN_URI" \in flags /\ path[1] = "file:"
      file == IF uri THEN <<path[2]>> ELSE path
      params == IF uri THEN {path[i] : i \in 3..Len(path)} ELSE {}
  IN  IF file \notin fs0 /\ "SQLITE_OPEN_CREATE" \notin flags
        THEN [res |-> Err([kind |-> "CannotOpen"]), fs |-> fs0]
      ELSE [res |-> Ok([file |-> file, flags |-> flags,
                        immutable |-> "?immutable=1" \in params]),
            fs |-> fs0 \cup {file}]

\* get_connection opening as Connection::open does, for reading and
\* writing and creating the file.
get_connection_read_write(fs0, db_path, bypass_lock) ==
  open_with_flags(fs0, db_path,
                  {"SQLITE_OPEN_READ_WRITE", "SQLITE_OPEN_CREATE",
                   "SQLITE_OPEN_URI"})

\* get_connection(db_path, bypass_lock)
get_connection(fs0, db_path, bypass_lock) ==
  IF bypass_lock
    THEN open_with_flags(fs0, <<"file:">> \o db_path \o <<"?immutable=1">>,
                         {"SQLITE_OPEN_READ_ONLY", "SQLITE_OPEN_URI"})
  ELSE open_with_flags(fs0, db_path, {"SQLITE_OPEN_READ_ONLY"})

VARIABLES
  browser,      \* the reader in use: "chrome" (ChromeManager) or "firefox"
  platform,     \* the target the program was built for
  db,           \* the rows of the cookie table of the profile, in table order
  filter,       \* the shared predicate (Arc<Mutex<Box<HostFilterFn>>>)
  key_cache,    \* ChromeManager.key_cache (OnceCell<Vec<u8>>)
  keyring,      \* the OS credential store's entry for the browser
  local_state,  \* the profile's Local State file (Windows)
  lookups,      \* number of key acquisitions run so far
  result,       \* what get_cookies returned to the caller; "None" when no
                \* call was made since the filter or the OS state changed
  log,          \* what that get_cookies call did, in order
  call,         \* the last call of a function of the program: [fn, ...]
  ret,          \* what that call returned
  fs,           \* the files that exist
  conn,         \* the manager's SQLite connection, None before new
  mutex,        \* who holds the lock of the shared predicate
  query,        \* the get_cookies call in progress and its row evaluation
  setter,       \* the set_filter call in progress
  installed,    \* the predicate of the last new or set_filter that returned
  evals         \* the row evaluations of the get_cookies call, in order

\* The state of the readers, and the record of a single function call.
reader_vars == <<browser, platform, db, filter, key_cache, keyring, local_state,
                 lookups, result, log>>

call_vars == <<call, ret>>

manager_vars == <<fs, conn, mutex, query, setter, installed, evals>>

aux_vars == <<call_vars, manager_vars>>

vars == <<browser, platform, db, filter, key_cache, keyring, local_state,
          lookups, result, log, call, ret, fs, conn, mutex, query, setter,
          installed, evals>>

\* No function call recorded.
NoCall == [fn |-> "none"]

\* No get_cookies and no set_filter call in progress.
QueryIdle ==
  [pc |-> "idle", row |-> 0, installed |-> None, overlap |-> {},
   used |-> <<>>, selected |-> <<>>]

SetterIdle == [pc |-> "idle", arg |-> {}]

ManagerIdle ==
  /\ mutex = "free"
  /\ query = QueryIdle
  /\ setter = SetterIdle
  /\ installed = None
  /\ evals = <<>>

Init ==
  /\ browser \in {"chrome", "firefox"}
  /\ platform \in (IF browser = "chrome" THEN Platforms ELSE {"linux"})
  /\ db \in (IF browser = "chrome" THEN Tables(ChromeRows) ELSE Tables(FirefoxRows))
  /\ filter \in Filters
  /\ key_cache = None
  /\ keyring \in (IF browser = "chrome" /\ platform \in {"linux", "macos"}
                    THEN Keyrings ELSE {None})
  /\ local_state \in (IF browser = "chrome" /\ platform = "windows"
                        THEN LocalStates ELSE {NoLocalState})
  /\ lookups = 0
  /\ result = [tag |-> "None"]
  /\ log = <<>>
  /\ call = NoCall
  /\ ret = NoCall
  /\ fs = {DbFile}
  /\ conn = Some(get_connection(fs, DbFile, FALSE).res.val)
  /\ ManagerIdle

\* The answers that can matter to a call: CryptUnprotectData unwraps a key
\* on Windows only, and a row whose encrypted_value is empty or unreadable
\* reaches no library.
OsKeyChoices(p) == IF p = "windows" THEN OsKeyOutcomes ELSE {None}

LibChoices(table) ==
  {lib \in [DOMAIN table -> LibOutcomes] :
     \A i \in DOMAIN table :
       (table[i].encrypted_value.type # "blob" \/ table[i].encrypted_value.v = <<>>)
         => lib[i] = None}

Lookups(events) == Len(SelectSeq(events, LAMBDA e : e.op = "lookup"))

\* ChromeManager::get_cookies
ChromeGetCookies ==
  /\ browser = "chrome"
  /\ ~IsPanic(result)
  /\ lookups < MaxLookups
  /\ \E os_key \in OsKeyChoices(platform), lib \in LibChoices(db) :
       \E r \in {chrome_get_cookies(platform, db, filter, key_cache,
                     [keyring |-> keyring, local_state |-> local_state],
                     [os_key |-> os_key, rows |-> lib])} :
         /\ result' = r.res
         /\ key_cache' = r.cache
         /\ log' = r.log
         /\ lookups' = lookups + Lookups(r.log)
  /\ UNCHANGED <<browser, platform, db, filter, keyring, local_state>>
  /\ UNCHANGED aux_vars

\* FirefoxManager::get_cookies
FirefoxGetCookies ==
  /\ browser = "firefox"
  /\ ~IsPanic(result)
  /\ result' = firefox_get_cookies(db, filter)
  /\ log' = <<>>
  /\ UNCHANGED <<browser, platform, db, filter, key_cache, keyring, local_state,
                 lookups>>
  /\ UNCHANGED aux_vars

\* ChromeManager::set_filter: the predicate is replaced under the lock.
SetFilter ==
  /\ browser = "chrome"
  /\ ~IsPanic(result)
  /\ \E f \in Filters : filter' = f
  /\ result' = [tag |-> "None"]
  /\ log' = <<>>
  /\ UNCHANGED <<browser, platform, db, key_cache, keyring, local_state,
                 lookups>>
  /\ UNCHANGED aux_vars

\* The credential store changes: the keyring is unlocked or locked, or the
\* browser's password is replaced.
KeyringChange ==
  /\ browser = "chrome"
  /\ platform \in {"linux", "macos"}
  /\ \E k \in Keyrings \ {keyring} : keyring' = k
  /\ result' = [tag |-> "None"]
  /\ log' = <<>>
  /\ UNCHANGED <<browser, platform, db, filter, key_cache, local_state,
                 lookups>>
  /\ UNCHANGED aux_vars

\* The browser rewrites its Local State file.
LocalStateChange ==
  /\ browser = "chrome"
  /\ platform = "windows"
  /\ \E l \in LocalStates \ {local_state} : local_state' = l
  /\ result' = [tag |-> "None"]
  /\ log' = <<>>
  /\ UNCHANGED <<browser, platform, db, filter, key_cache, keyring, lookups>>
  /\ UNCHANGED aux_vars

Next ==
  \/ ChromeGetCookies
  \/ FirefoxGetCookies
  \/ SetFilter
  \/ KeyringChange
  \/ LocalStateChange

Spec == Init /\ [][Next]_vars

(***************************************************************************)
(* Properties.                                                             *)
(***************************************************************************)
\* The rows of the last call whose decrypt_cookie_value returned `tag`.
RowsReturning(tag) == {log[j].row : j \in {i \in DOMAIN log : log[i].op = tag}}

\* The rows the Chrome query yields as readable items, in order.
ChromeRowsRead ==
  LET items == filter_map_ok(chrome_query_map(db, filter))
  IN  [k \in DOMAIN items |-> items[k].val.row]

\* The rows of the cookies a call returned, in order.
CookieRows(cookies) == [k \in DOMAIN cookies |-> cookies[k].row]

\* C1: when the decryption of a row the Chrome query yielded fails, the
\* call returns Err(CookieValueDecrypt) wrapping that failure; an Ok result
\* holds one cookie for each row the query yielded, in order, never a subset.
C1_DecryptFailureFailsCall ==
  (browser = "chrome" /\ result.tag # "None") =>
    /\ RowsReturning("Err") # {} =>
          /\ IsErr(result)
          /\ result.err.kind = "CookieValueDecrypt"
          /\ result.err.source.kind \in
                {"CookieValueDecrypt", "CookieValueUtf8Decode", "GetKey",
                 "KeyNotFound", "LocalState", "InvalidInputLength"}
    /\ IsOk(result) =>
          /\ CookieRows(result.val) = ChromeRowsRead
          /\ RowsReturning("Err") = {}

\* A call over two rows: the first row's value decrypted, the second row's
\* decryption failed, and the call returned the error.
C1_Witness ==
  /\ browser = "chrome"
  /\ IsErr(result)
  /\ result.err.kind = "CookieValueDecrypt"
  /\ RowsReturning("Ok") = {1}
  /\ RowsReturning("Err") = {2}

\* The items the last call's query yielded, an Err for a failed read.
QueryItems ==
  IF browser = "chrome" THEN chrome_query_map(db, filter)
  ELSE firefox_query_map(db, filter)

\* C2: when the read of a row fails while the query result is iterated (a
\* column NULL or of the wrong type, an error of host_filter), get_cookies
\* of either reader does not return Ok.
C2_RowReadFailureFailsCall ==
  (result.tag # "None" /\ \E k \in DOMAIN QueryItems : IsErr(QueryItems[k]))
    => ~IsOk(result)

\* C3: a row whose encrypted_value is empty gives a cookie whose value is
\* the row's value column, and the call does nothing for that row: no
\* decrypt_cookie_value call, no credential lookup, no cipher, no DPAPI.
C3_EmptyEncryptedValueIsPlain ==
  (browser = "chrome" /\ result.tag # "None") =>
    /\ \A j \in DOMAIN log : db[log[j].row].encrypted_value.v # <<>>
    /\ IsOk(result) =>
          \A k \in DOMAIN result.val :
            db[result.val[k].row].encrypted_value.v = <<>>
              => result.val[k].value = db[result.val[k].row].value.v

\* A call that acquired a key for its first row and returned the value
\* column for its second, whose encrypted_value is empty.
C3_Witness ==
  /\ browser = "chrome"
  /\ IsOk(result)
  /\ Len(result.val) = 2
  /\ db[2].encrypted_value.v = <<>>
  /\ result.val[2].value = TextPE
  /\ \E j \in DOMAIN log : log[j].op = "lookup" /\ log[j].row = 1

\* The stored values whose key the build for platform p takes from the key
\* cache: v11 on Linux, v10 on macOS and Windows.
NeedsCachedKey(p, encrypted_value) ==
  \/ p = "linux" /\ GetTo(encrypted_value, HEADER_LEN) = Some(TagV11)
  \/ p \in {"macos", "windows"} /\ GetTo(encrypted_value, HEADER_LEN) = Some(TagV10)

\* C4, as stated: over any sequence of decrypt calls the credential lookup
\* is invoked once and no more.
C4_LookupInvokedOnce == lookups <= 1

\* C4, amended: a lookup that succeeds fills the cache in the same decrypt
\* call; once the cache is filled no call looks up again and the cache keeps
\* its key; only a lookup that failed is repeated, once per call.
C4_LookupMemoized ==
  [][/\ IsSome(key_cache) => (key_cache' = key_cache /\ lookups' = lookups)
     /\ (key_cache = None /\ IsSome(key_cache')) => lookups' = lookups + 1
     /\ lookups' <= lookups + 1
     /\ \A j \in DOMAIN log' :
          (log'[j].op = "cipher"
             /\ NeedsCachedKey(platform, db[log'[j].row].encrypted_value.v))
            => log'[j].key = Unwrap(key_cache')]_vars

\* A call that decrypted with the key a previous call had cached, and made
\* no lookup of its own.
C4_Witness ==
  /\ lookups = 1
  /\ IsSome(key_cache)
  /\ IsOk(result)
  /\ \E j \in DOMAIN log : log[j].op = "cipher" /\ log[j].key = Unwrap(key_cache)
  /\ \A j \in DOMAIN log : log[j].op # "lookup"

\* The errors a failed key acquisition surfaces as on the build for p.
AcquisitionErrors(p) ==
  IF p = "windows" THEN {"GetKey", "KeyNotFound", "LocalState"} ELSE {"GetKey"}

\* C5, as stated: a call in which the key acquisition failed leaves the
\* cache empty and returns a GetKey error.
C5_FailedAcquisitionIsGetKey ==
  (browser = "chrome" /\ result.tag # "None" /\ key_cache = None
     /\ \E j \in DOMAIN log : log[j].op = "lookup")
    => (IsErr(result) /\ result.err.source.kind = "GetKey")

\* C5, amended: a call that reaches a value needing the key while the cache
\* is empty runs the acquisition, whatever failed before; an acquisition
\* that fails leaves the cache empty and the call returns its error (GetKey
\* on Linux and macOS; GetKey, KeyNotFound or LocalState on Windows); one
\* that succeeds fills the cache.
C5_FailedAcquisitionNotCached ==
  [][LET looked == \E j \in DOMAIN log' : log'[j].op = "lookup"
         failed == /\ IsErr(result')
                   /\ result'.err.kind = "CookieValueDecrypt"
                   /\ result'.err.source.kind \in AcquisitionErrors(platform)
     IN  /\ (key_cache = None
               /\ \E j \in DOMAIN log' :
                    NeedsCachedKey(platform, db[log'[j].row].encrypted_value.v))
              => (looked /\ lookups' = lookups + 1)
         /\ looked => \/ failed /\ key_cache' = None
                      \/ ~failed /\ IsSome(key_cache')
         /\ (looked /\ platform # "windows" /\ keyring = None)
              => (failed /\ result'.err.source.kind = "GetKey")
         /\ (looked /\ platform = "linux" /\ IsSome(keyring))
              => key_cache' = Some(get_v11_key(keyring).val)
         /\ (looked /\ platform = "macos" /\ IsSome(keyring))
              => key_cache' = Some(get_v10_key(keyring).val)]_vars

\* A second acquisition, made after a first one failed, succeeded and its
\* key is cached.
C5_Witness ==
  /\ lookups = 2
  /\ IsSome(key_cache)
  /\ IsOk(result)
  /\ \E j \in DOMAIN log : log[j].op = "lookup"

\* The tag of the stored value of the row an event of the log is about.
TagOf(e) == GetTo(db[e.row].encrypted_value.v, HEADER_LEN)

\* C6: on Linux a v11 value whose keyring lookup fails gives a GetKey error
\* and reaches no cipher, with the default key or any other; a v10 value is
\* decrypted with CHROME_V10_KEY, whatever the cache holds, with no lookup,
\* and a call that meets no v11 value leaves the key cache as it was.
C6_LinuxKeySelection ==
  [][platform = "linux" =>
       /\ \A j \in DOMAIN log' :
            /\ (TagOf(log'[j]) = Some(TagV11) /\ log'[j].op = "lookup"
                  /\ keyring = None)
                 => /\ result' = Err([kind |-> "CookieValueDecrypt",
                                      source |-> DErr("GetKey", "v11", "Keyring")])
                    /\ \A i \in DOMAIN log' :
                         log'[i].op = "cipher" => log'[i].row # log'[j].row
            /\ TagOf(log'[j]) = Some(TagV10)
                 => /\ log'[j].op # "lookup"
                    /\ log'[j].op = "cipher" => log'[j].key = CHROME_V10_KEY
                    /\ log'[j].op \in {"Ok", "Err"}
                         => \E i \in 1..(j - 1) :
                              /\ log'[i].op = "cipher"
                              /\ log'[i].row = log'[j].row
                              /\ log'[i].key = CHROME_V10_KEY
       /\ (\A j \in DOMAIN log' : TagOf(log'[j]) # Some(TagV11))
            => (key_cache' = key_cache /\ lookups' = lookups)]_vars

\* A Linux call whose first row, tagged v10, went to the cipher with
\* CHROME_V10_KEY and whose second, tagged v11, failed on the keyring.
C6_Witness ==
  /\ platform = "linux"
  /\ browser = "chrome"
  /\ IsErr(result)
  /\ result.err.source.kind = "GetKey"
  /\ key_cache = None
  /\ \E j \in DOMAIN log :
       log[j].op = "cipher" /\ log[j].row = 1 /\ log[j].key = CHROME_V10_KEY
  /\ \E j \in DOMAIN log : log[j].op = "lookup" /\ log[j].row = 2
  /\ \A j \in DOMAIN log : log[j].op = "cipher" => log[j].row = 1

\* The tags the build for p selects a key for.
RecognizedTags(p) ==
  IF p = "macos" THEN {Some(TagV10)} ELSE {Some(TagV10), Some(TagV11)}

\* The outcome events of the rows whose stored value carries no recognized
\* tag (a value shorter than the tag has none).
UntaggedReturns ==
  {j \in DOMAIN log :
     /\ log[j].op \in {"Ok", "Err", "Panic"}
     /\ TagOf(log[j]) \notin RecognizedTags(platform)}

\* C7: on the Unix builds a non-empty stored value with no recognized tag
\* is returned as the text its bytes encode when they are valid UTF-8, and
\* otherwise fails get_cookies with CookieValueUtf8Decode; no cipher runs
\* and no key is looked up for it.
C7_UntaggedValueIsText ==
  (browser = "chrome" /\ platform # "windows" /\ result.tag # "None") =>
    \A j \in UntaggedReturns :
      LET stored == db[log[j].row].encrypted_value.v
      IN  /\ \A i \in DOMAIN log :
                log[i].row = log[j].row => log[i].op \notin {"cipher", "lookup"}
          /\ log[j].op = (IF from_utf8(stored).ok THEN "Ok" ELSE "Err")
          /\ log[j].op = "Err" =>
                result = Err([kind |-> "CookieValueDecrypt",
                              source |-> DErr("CookieValueUtf8Decode", "",
                                              "FromUtf8Error")])
          /\ (log[j].op = "Ok" /\ IsOk(result)) =>
                \E k \in DOMAIN result.val :
                  /\ result.val[k].row = log[j].row
                  /\ Utf8Encode(result.val[k].value) = stored

\* A Unix call that returned a two-byte untagged value as its text, and a
\* longer value with an unknown tag as well.
C7_Witness ==
  /\ browser = "chrome"
  /\ platform # "windows"
  /\ IsOk(result)
  /\ Len(result.val) = 2
  /\ db[1].encrypted_value.v = <<195, 169>>
  /\ result.val[1].value = <<233>>
  /\ db[2].encrypted_value.v = <<118, 49, 50, 65>>
  /\ result.val[2].value = <<118, 49, 50, 65>>


\* The positions of the log where a decrypt_cookie_value call returned.
Returns(events) == {j \in DOMAIN events : events[j].op \in {"Ok", "Err", "Panic"}}

\* C8, as stated: on Windows, while the local state holds no encrypted_key,
\* every non-empty stored value a call decrypts is handed as it is to DPAPI.
C8_NoKeyMeansDpapi ==
  (browser = "chrome" /\ platform = "windows" /\ result.tag # "None"
     /\ get_encrypted_key(local_state) = None) =>
    \A j \in Returns(log) :
      \E i \in 1..(j - 1) :
        /\ log[i].op = "dpapi"
        /\ log[i].row = log[j].row
        /\ log[i].data = db[log[j].row].encrypted_value.v

\* C8, amended: on Windows the branch goes by the leading bytes alone.  A
\* value not tagged v10 is handed as it is to DPAPI, with no cipher and no
\* key acquisition, whatever the local state holds; a v10 value is never
\* handed to DPAPI, and with an empty cache and no encrypted_key in the
\* local state its decryption fails with KeyNotFound (LocalState when the
\* file cannot be read).
C8_WindowsBranchByTag ==
  [][platform = "windows" =>
       \A j \in Returns(log') :
         LET stored == db[log'[j].row].encrypted_value.v
             mine == {i \in DOMAIN log' : log'[i].row = log'[j].row}
         IN  /\ GetTo(stored, HEADER_LEN) # Some(TagV10) =>
                   /\ \E i \in mine :
                        i < j /\ log'[i].op = "dpapi" /\ log'[i].data = stored
                   /\ \A i \in mine : log'[i].op \notin {"cipher", "lookup"}
             /\ GetTo(stored, HEADER_LEN) = Some(TagV10) =>
                   /\ \A i \in mine :
                        log'[i].op = "dpapi" => log'[i].data # stored
                   /\ (key_cache = None /\ get_encrypted_key(local_state) = None)
                        => /\ IsErr(result')
                           /\ result'.err.kind = "CookieValueDecrypt"
                           /\ result'.err.source.kind =
                                (IF local_state.file = "json" THEN "KeyNotFound"
                                 ELSE "LocalState")
                           /\ \A i \in mine : log'[i].op # "cipher"]_vars

\* A Windows call, the local state holding no encrypted_key: its first
\* value, untagged, was unwrapped with DPAPI; its second, tagged v10, failed
\* with KeyNotFound.
C8_Witness ==
  /\ browser = "chrome"
  /\ platform = "windows"
  /\ local_state = [file |-> "json", encrypted_key |-> None]
  /\ IsErr(result)
  /\ result.err.source.kind = "KeyNotFound"
  /\ \E j \in DOMAIN log :
       /\ log[j].op = "dpapi"
       /\ log[j].row = 1
       /\ log[j].data = db[1].encrypted_value.v
  /\ \E j \in DOMAIN log : log[j].op = "lookup" /\ log[j].row = 2

\* C9: when the Windows key acquisition decodes the registered key, a key
\* that does not start with "DPAPI" is rejected with InvalidKeyPrefix and
\* nothing is handed to DPAPI; otherwise DPAPI receives the decoded key
\* from its sixth byte on (index 5), the five bytes of the prefix removed.
C9_PrefixStrippedExactly ==
  (browser = "chrome" /\ platform = "windows" /\ result.tag # "None"
     /\ local_state.file = "json" /\ IsSome(get_encrypted_key(local_state))
     /\ Base64Decode(Unwrap(get_encrypted_key(local_state))).ok) =>
    LET decoded == Base64Decode(Unwrap(get_encrypted_key(local_state))).bytes
    IN  \A j \in DOMAIN log :
          log[j].op = "lookup" =>
            IF StartsWith(decoded, DPAPI_PREFIX)
              THEN /\ j + 1 \in DOMAIN log
                   /\ log[j + 1].op = "dpapi"
                   /\ log[j + 1].data = SubSeq(decoded, 6, Len(decoded))
            ELSE /\ IsErr(result)
                 /\ result.err.source = DErr("GetKey", "v10", "InvalidKeyPrefix")
                 /\ (j + 1 \in DOMAIN log => log[j + 1].op # "dpapi")

\* The rows of the table the Firefox query steps to, in order.
FirefoxRowsStepped ==
  LET steps == query_rows([i \in DOMAIN db |-> db[i].host], filter, 1, <<>>)
  IN  {steps[k].val : k \in {n \in DOMAIN steps : IsOk(steps[n])}}

\* A row of moz_cookies every column of which has the type the reader asks.
FirefoxReadable(row) ==
  /\ row.name.type = "text" /\ row.value.type = "text"
  /\ row.host.type = "text" /\ row.path.type = "text"
  /\ row.expiry.type = "integer" /\ row.isSecure.type = "integer"
  /\ row.sameSite.type = "integer" /\ row.isHttpOnly.type = "integer"

\* C10: a readable Firefox row whose expiry is past 253402300799 gives a
\* cookie that expires at 253402300799; the call returns Ok, it neither
\* fails nor panics.
C10_ExpiryClamped ==
  (browser = "firefox" /\ result.tag # "None") =>
    \A i \in FirefoxRowsStepped :
      (FirefoxReadable(db[i]) /\ BigLess(MAX_TIMESTAMP, db[i].expiry.v)) =>
        /\ IsOk(result)
        /\ \E k \in DOMAIN result.val :
             /\ result.val[k].row = i
             /\ result.val[k].expires =
                  Some(Expiration_from(
                         BigMul1000(BigMul1000(BigMul1000(MAX_TIMESTAMP)))))

(***************************************************************************)
(* Single calls of the program's functions: the arguments are drawn from   *)
(* bounded sets, the call and its return are recorded.                     *)
(***************************************************************************)
\* How far around each landmark the timestamps are drawn.
TimeSpread == 6

\* The integers 0..TimeSpread as wide integers.
SmallBigs == {Big(FALSE, <<d>>) : d \in 0..TimeSpread}

\* i64 timestamps: around i64::MIN, zero, the epoch offset, a present-day
\* expiry and i64::MAX.
TimeInputs ==
  {BigAdd(BigNeg(TwoPow63), d) : d \in SmallBigs}
  \cup {BigSub(d, e) : d \in SmallBigs, e \in SmallBigs}
  \cup {BigAdd(WINDOWS_UNIX_EPOCH_OFFSET_MICROS, BigSub(d, e)) :
          d \in SmallBigs, e \in SmallBigs}
  \cup {BigAdd(ExpiresInRange, d) : d \in SmallBigs}
  \cup {BigSub(BigSub(TwoPow63, Big(FALSE, <<1>>)), d) : d \in SmallBigs}

\* No reader is in use while single functions are called.
ReaderIdle ==
  /\ browser = "none"
  /\ platform = "none"
  /\ db = <<>>
  /\ filter = {}
  /\ key_cache = None
  /\ keyring = None
  /\ local_state = NoLocalState
  /\ lookups = 0
  /\ result = [tag |-> "None"]
  /\ log = <<>>

\* chrome_to_unix_timestamp_nanos(chrome_time)
CallChromeToUnix ==
  /\ call = NoCall
  /\ \E t \in TimeInputs :
       /\ call' = [fn |-> "chrome_to_unix_timestamp_nanos", chrome_time |-> t]
       /\ ret' = chrome_to_unix_timestamp_nanos(t)
  /\ UNCHANGED <<reader_vars, manager_vars>>

\* The values of a same-site column: -1..TimeSpread, and the ends of the
\* 32-bit and 64-bit ranges with their neighbours.
SameSiteInputs ==
  SmallBigs
  \cup {Big(TRUE, <<1>>),
        Big(FALSE, <<2, 147, 483, 647>>), Big(FALSE, <<2, 147, 483, 648>>),
        Big(TRUE, <<2, 147, 483, 648>>), Big(TRUE, <<2, 147, 483, 649>>),
        BigSub(TwoPow63, Big(FALSE, <<1>>)), BigNeg(TwoPow63)}

\* The mapping closure of ChromeManager::get_cookies on a ChromeCookie
\* whose same_site is n.
CallChromeCookie ==
  /\ call = NoCall
  /\ \E n \in SameSiteInputs :
       /\ call' = [fn |-> "chrome_cookie", same_site |-> n]
       /\ ret' = chrome_cookie(
                   [name |-> "n", value |-> TextPE, encrypted_value |-> <<>>,
                    host |-> "a.com", path |-> "/", expires |-> ExpiresInRange,
                    secure |-> TRUE, same_site |-> n, http_only |-> FALSE,
                    row |-> 1],
                   TextPE,
                   from_unix_timestamp_nanos(
                     chrome_to_unix_timestamp_nanos(ExpiresInRange)))
  /\ UNCHANGED <<reader_vars, manager_vars>>

\* The query_map closure of FirefoxManager::get_cookies on a row whose
\* sameSite column holds n.
CallFirefoxRow ==
  /\ call = NoCall
  /\ \E n \in SameSiteInputs :
       /\ call' = [fn |-> "firefox_row", same_site |-> n]
       /\ ret' = firefox_row(
                   [FirefoxRow(Text("a.com"), Text(TextPE),
                               Integer(MAX_TIMESTAMP), Integer(1))
                      EXCEPT !.sameSite = Integer(n)], 1)
  /\ UNCHANGED <<reader_vars, manager_vars>>

(***************************************************************************)
(* The block cipher the aes, cbc and aes-gcm crates compute: AES           *)
(* (FIPS 197), CBC with PKCS7 padding, and GCM (SP 800-38D).  A block is   *)
(* the sequence of its 16 bytes.                                           *)
(***************************************************************************)
RECURSIVE XorBits(_, _, _)
XorBits(a, b, n) ==
  IF n = 0 THEN 0
  ELSE ((a + b) % 2) + 2 * XorBits(a \div 2, b \div 2, n - 1)

\* Exclusive or of two 4-bit values, tabulated.
Xor4 == [a \in 0..15 |-> [b \in 0..15 |-> XorBits(a, b, 4)]]

\* Exclusive or of two bytes.
Xor(a, b) == 16 * Xor4[a \div 16][b \div 16] + Xor4[a % 16][b % 16]

\* Exclusive or of two byte strings of one length.
XorSeq(x, y) ==
  IF Len(x) # Len(y) THEN <<>>
  ELSE SubSeq([i \in 1..Len(x) |-> Xor(x[i], y[i])], 1, Len(x))

\* The AES S-box, entry x at index x + 1.
SBox ==
  <<99, 124, 119, 123, 242, 107, 111, 197, 48, 1, 103, 43, 254, 215, 171, 118,
    202, 130, 201, 125, 250, 89, 71, 240, 173, 212, 162, 175, 156, 164, 114, 192,
    183, 253, 147, 38, 54, 63, 247, 204, 52, 165, 229, 241, 113, 216, 49, 21,
    4, 199, 35, 195, 24, 150, 5, 154, 7, 18, 128, 226, 235, 39, 178, 117,
    9, 131, 44, 26, 27, 110, 90, 160, 82, 59, 214, 179, 41, 227, 47, 132,
    83, 209, 0, 237, 32, 252, 177, 91, 106, 203, 190, 57, 74, 76, 88, 207,
    208, 239, 170, 251, 67, 77, 51, 133, 69, 249, 2, 127, 80, 60, 159, 168,
    81, 163, 64, 143, 146, 157, 56, 245, 188, 182, 218, 33, 16, 255, 243, 210,
    205, 12, 19, 236, 95, 151, 68, 23, 196, 167, 126, 61, 100, 93, 25, 115,
    96, 129, 79, 220, 34, 42, 144, 136, 70, 238, 184, 20, 222, 94, 11, 219,
    224, 50, 58, 10, 73, 6, 36, 92, 194, 211, 172, 98, 145, 149, 228, 121,
    231, 200, 55, 109, 141, 213, 78, 169, 108, 86, 244, 234, 101, 122, 174, 8,
    186, 120, 37, 46, 28, 166, 180, 198, 232, 221, 116, 31, 75, 189, 139, 138,
    112, 62, 181, 102, 72, 3, 246, 14, 97, 53, 87, 185, 134, 193, 29, 158,
    225, 248, 152, 17, 105, 217, 142, 148, 155, 30, 135, 233, 206, 85, 40, 223,
    140, 161, 137, 13, 191, 230, 66, 104, 65, 153, 45, 15, 176, 84, 187, 22>>

\* The inverse S-box.
InvSBox ==
  <<82, 9, 106, 213, 48, 54, 165, 56, 191, 64, 163, 158, 129, 243, 215, 251,
    124, 227, 57, 130, 155, 47, 255, 135, 52, 142, 67, 68, 196, 222, 233, 203,
    84, 123, 148, 50, 166, 194, 35, 61, 238, 76, 149, 11, 66, 250, 195, 78,
    8, 46, 161, 102, 40, 217, 36, 178, 118, 91, 162, 73, 109, 139, 209, 37,
    114, 248, 246, 100, 134, 104, 152, 22, 212, 164, 92, 204, 93, 101, 182, 146,
    108, 112, 72, 80, 253, 237, 185, 218, 94, 21, 70, 87, 167, 141, 157, 132,
    144, 216, 171, 0, 140, 188, 211, 10, 247, 228, 88, 5, 184, 179, 69, 6,
    208, 44, 30, 143, 202, 63, 15, 2, 193, 175, 189, 3, 1, 19, 138, 107,
    58, 145, 17, 65, 79, 103, 220, 234, 151, 242, 207, 206, 240, 180, 230, 115,
    150, 172, 116, 34, 231, 173, 53, 133, 226, 249, 55, 232, 28, 117, 223, 110,
    71, 241, 26, 113, 29, 41, 197, 137, 111, 183, 98, 14, 170, 24, 190, 27,
    252, 86, 62, 75, 198, 210, 121, 32, 154, 219, 192, 254, 120, 205, 90, 244,
    31, 221, 168, 51, 136, 7, 199, 49, 177, 18, 16, 89, 39, 128, 236, 95,
    96, 81, 127, 169, 25, 181, 74, 13, 45, 229, 122, 159, 147, 201, 156, 239,
    160, 224, 59, 77, 174, 42, 245, 176, 200, 235, 187, 60, 131, 83, 153, 97,
    23, 43, 4, 126, 186, 119, 214, 38, 225, 105, 20, 99, 85, 33, 12, 125>>

\* Multiplication by x in GF(2^8) modulo x^8 + x^4 + x^3 + x + 1.
xtime(a) == IF a >= 128 THEN Xor((2 * a) % 256, 27) ELSE 2 * a

RECURSIVE GMulBits(_, _)
GMulBits(a, b) ==
  IF b = 0 THEN 0
  ELSE Xor(IF b % 2 = 1 THEN a ELSE 0, GMulBits(xtime(a), b \div 2))

\* The products in GF(2^8) by the coefficients of MixColumns and of its
\* inverse, tabulated.
GMulTable == [c \in {1, 2, 3, 9, 11, 13, 14} |-> [a \in 0..255 |-> GMulBits(a, c)]]

GMul(a, c) == GMulTable[c][a]

\* A state is a block of 16 bytes.
IsBlock(s) == Len(s) = 16

RotWord(w) == <<w[2], w[3], w[4], w[1]>>

SubWord(w) == <<SBox[w[1] + 1], SBox[w[2] + 1], SBox[w[3] + 1], SBox[w[4] + 1]>>

\* Key expansion: what the word after acc is xored from, besides the word
\* nk places before it.  prev is the group before, acc the first words of
\* the group, rc the round constant.
ExpandTemp(prev, acc, nk, rc) ==
  IF Len(acc) = 0 THEN XorSeq(SubWord(RotWord(prev[nk])), <<rc, 0, 0, 0>>)
  ELSE IF nk > 6 /\ Len(acc) = 4 THEN SubWord(acc[4])
  ELSE acc[Len(acc)]

\* Key expansion, the nk words of one group after those of the group
\* before.
RECURSIVE ExpandGroup(_, _, _, _)
ExpandGroup(prev, acc, nk, rc) ==
  IF Len(acc) >= nk THEN acc
  ELSE ExpandGroup(prev,
         Append(acc, XorSeq(prev[Len(acc) + 1], ExpandTemp(prev, acc, nk, rc))),
         nk, rc)

\* Key expansion: w holds the words so far, group the nk words after
\* them, nk is the key length in words.
RECURSIVE ExpandKey(_, _, _, _)
ExpandKey(w, group, nk, rc) ==
  IF Len(w) + Len(group) >= 4 * (nk + 7) THEN SubSeq(w \o group, 1, 4 * (nk + 7))
  ELSE ExpandKey(w \o group, ExpandGroup(group, <<>>, nk, rc), nk, xtime(rc))

RoundKeysOf(w, nk) ==
  IF Len(w) # 4 * (nk + 7) THEN <<>> ELSE
  SubSeq([r \in 1..(nk + 7) |->
            w[4 * r - 3] \o w[4 * r - 2] \o w[4 * r - 1] \o w[4 * r]],
         1, nk + 7)

\* The words of a key.
KeyWords(key) ==
  SubSeq([i \in 1..(Len(key) \div 4) |-> SubSeq(key, 4 * i - 3, 4 * i)],
         1, Len(key) \div 4)

\* The round keys of a 128-bit or 256-bit key.
RoundKeys(key) ==
  RoundKeysOf(ExpandKey(<<>>, KeyWords(key), Len(key) \div 4, 1),
              Len(key) \div 4)

SubBytes(s) ==
  IF ~IsBlock(s) THEN <<>> ELSE SubSeq([i \in 1..16 |-> SBox[s[i] + 1]], 1, 16)

InvSubBytes(s) ==
  IF ~IsBlock(s) THEN <<>> ELSE SubSeq([i \in 1..16 |-> InvSBox[s[i] + 1]], 1, 16)

\* Byte i of the state is row (i - 1) % 4 of column (i - 1) \div 4.
ShiftRows(s) ==
  IF ~IsBlock(s) THEN <<>>
  ELSE SubSeq([i \in 1..16 |->
                 s[4 * ((((i - 1) \div 4) + ((i - 1) % 4)) % 4) + ((i - 1) % 4) + 1]],
              1, 16)

InvShiftRows(s) ==
  IF ~IsBlock(s) THEN <<>>
  ELSE SubSeq([i \in 1..16 |->
                 s[4 * ((((i - 1) \div 4) + 4 - ((i - 1) % 4)) % 4) + ((i - 1) % 4) + 1]],
              1, 16)

\* Each column multiplied by the circulant matrix of first row m.
MixColumnsWith(s, m) ==
  IF ~IsBlock(s) THEN <<>> ELSE
  SubSeq([i \in 1..16 |->
            Xor(Xor(GMul(s[4 * ((i - 1) \div 4) + 1], m[((4 - ((i - 1) % 4)) % 4) + 1]),
                    GMul(s[4 * ((i - 1) \div 4) + 2], m[((5 - ((i - 1) % 4)) % 4) + 1])),
                Xor(GMul(s[4 * ((i - 1) \div 4) + 3], m[((6 - ((i - 1) % 4)) % 4) + 1]),
                    GMul(s[4 * ((i - 1) \div 4) + 4], m[((7 - ((i - 1) % 4)) % 4) + 1])))],
         1, 16)

MixColumns(s) == MixColumnsWith(s, <<2, 3, 1, 1>>)

InvMixColumns(s) == MixColumnsWith(s, <<14, 11, 13, 9>>)

RECURSIVE EncryptRounds(_, _, _)
EncryptRounds(s, rk, r) ==
  IF ~IsBlock(s) \/ r = Len(rk) - 1 THEN XorSeq(ShiftRows(SubBytes(s)), rk[r + 1])
  ELSE EncryptRounds(XorSeq(MixColumns(ShiftRows(SubBytes(s))), rk[r + 1]), rk, r + 1)

\* The cipher on one block under the round keys rk.
AesEncryptBlock(rk, block) == EncryptRounds(XorSeq(block, rk[1]), rk, 1)

RECURSIVE DecryptRounds(_, _, _)
DecryptRounds(s, rk, r) ==
  IF ~IsBlock(s) \/ r = 0 THEN XorSeq(InvSubBytes(InvShiftRows(s)), rk[1])
  ELSE DecryptRounds(InvMixColumns(XorSeq(InvSubBytes(InvShiftRows(s)), rk[r + 1])),
                     rk, r - 1)

\* The inverse cipher on one block.
AesDecryptBlock(rk, block) ==
  DecryptRounds(XorSeq(block, rk[Len(rk)]), rk, Len(rk) - 2)

\* CBC decryption of the blocks of data from the i-th on; prev is the
\* block before (the IV for the first).
RECURSIVE CbcDecryptFrom(_, _, _, _, _)
CbcDecryptFrom(rk, prev, data, i, acc) ==
  IF Len(acc) >= Len(data) THEN acc
  ELSE CbcDecryptFrom(rk, SubSeq(data, 16 * i - 15, 16 * i), data, i + 1,
         acc \o XorSeq(AesDecryptBlock(rk, SubSeq(data, 16 * i - 15, 16 * i)), prev))

\* Pkcs7::unpad: the last byte n is 1..16 and the last n bytes are n.
Pkcs7Unpad(buf) ==
  IF Len(buf) = 0 THEN None
  ELSE IF /\ buf[Len(buf)] \in 1..16
          /\ buf[Len(buf)] <= Len(buf)
          /\ \A i \in (Len(buf) - buf[Len(buf)] + 1)..Len(buf) : buf[i] = buf[Len(buf)]
    THEN Some(SubSeq(buf, 1, Len(buf) - buf[Len(buf)]))
  ELSE None

\* The blocks of data decrypted under the round keys rk, and unpadded.
CbcUnpad(rk, iv, data) ==
  IF Len(rk) = 0 THEN None ELSE Pkcs7Unpad(CbcDecryptFrom(rk, iv, data, 1, <<>>))

\* cbc::Decryptor<Aes128>::new(key, iv).decrypt_padded_b2b_mut::<Pkcs7>:
\* the plaintext, or None for an UnpadError.
decrypt_padded(key, iv, data) ==
  IF Len(data) % 16 # 0 THEN None
  ELSE CbcUnpad(RoundKeys(key), iv, data)

\* The bits of a block as the coefficients of a polynomial over GF(2): the
\* highest bit of the first byte is the coefficient of degree 0, kept at
\* index 1 (SP 800-38D, 6.3).
BitsOf(block) ==
  IF ~IsBlock(block) THEN <<>> ELSE
  SubSeq([i \in 1..128 |->
            (block[((i - 1) \div 8) + 1] \div (2 ^ (7 - ((i - 1) % 8)))) % 2],
         1, 128)

\* The block of 128 coefficients.
BlockOfBits(bits) ==
  IF Len(bits) # 128 THEN <<>> ELSE
  SubSeq([j \in 1..16 |->
            128 * bits[8 * j - 7] + 64 * bits[8 * j - 6] + 32 * bits[8 * j - 5]
            + 16 * bits[8 * j - 4] + 8 * bits[8 * j - 3] + 4 * bits[8 * j - 2]
            + 2 * bits[8 * j - 1] + bits[8 * j]],
         1, 16)

\* The product of two polynomials of degree below 128.
PolyMul(a, b) ==
  IF Len(a) # 128 \/ Len(b) # 128 THEN <<>> ELSE
  SubSeq([k \in 1..255 |->
            Cardinality({i \in 1..128 :
                           /\ k + 1 - i \in 1..128
                           /\ a[i] = 1
                           /\ b[k + 1 - i] = 1}) % 2],
         1, 255)

\* The coefficient at index i of p, 0 outside p.
CoefAt(p, i) == IF i \in 1..Len(p) THEN p[i] ELSE 0

\* The first n coefficients of p . (1 + x + x^2 + x^7), which is what
\* p . x^128 is modulo x^128 + x^7 + x^2 + x + 1.
PolyFold(p, n) ==
  IF Len(p) = 0 THEN <<>> ELSE
  SubSeq([k \in 1..n |->
            (CoefAt(p, k) + CoefAt(p, k - 1) + CoefAt(p, k - 2) + CoefAt(p, k - 7)) % 2],
         1, n)

\* c reduced, given the fold hq of its coefficients of degree 128 and
\* above and the fold oq of those of hq.
PolyReduced(c, hq, oq) ==
  IF Len(oq) # 128 THEN <<>> ELSE
  SubSeq([k \in 1..128 |-> (c[k] + hq[k] + oq[k]) % 2], 1, 128)

PolyReduceWith(c, hq) ==
  IF Len(hq) # 134 THEN <<>> ELSE PolyReduced(c, hq, PolyFold(SubSeq(hq, 129, 134), 128))

\* A polynomial of degree below 255 modulo x^128 + x^7 + x^2 + x + 1.
PolyReduce(c) ==
  IF Len(c) # 255 THEN <<>> ELSE PolyReduceWith(c, PolyFold(SubSeq(c, 129, 255), 134))

ZeroBlock == <<0, 0, 0, 0, 0, 0, 0, 0, 0, 0, 0, 0, 0, 0, 0, 0>>

\* The product x . y in GF(2^128) (SP 800-38D, 6.3).
GfMul(x, y) ==
  IF ~IsBlock(x) \/ ~IsBlock(y) THEN <<>>
  ELSE BlockOfBits(PolyReduce(PolyMul(BitsOf(x), BitsOf(y))))

\* n as a big-endian integer of `bytes` bytes.
RECURSIVE BigEndian(_, _)
BigEndian(n, bytes) ==
  IF bytes = 0 THEN <<>> ELSE Append(BigEndian(n \div 256, bytes - 1), n % 256)

\* The i-th 16-byte block of data, filled with zeros.
BlockOf(data, i) ==
  SubSeq([j \in 1..16 |->
            IF 16 * (i - 1) + j <= Len(data) THEN data[16 * (i - 1) + j] ELSE 0],
         1, 16)

\* GHASH over the ciphertext (no associated data) from block i on.
RECURSIVE GHashFrom(_, _, _, _)
GHashFrom(h, data, i, x) ==
  IF ~IsBlock(x) \/ 16 * (i - 1) >= Len(data)
    THEN GfMul(XorSeq(x, BigEndian(0, 8) \o BigEndian(8 * Len(data), 8)), h)
  ELSE GHashFrom(h, data, i + 1, GfMul(XorSeq(x, BlockOf(data, i)), h))

\* GCTR: data from block i on, xored with the cipher of the counter
\* blocks nonce || i + 1.
RECURSIVE GctrFrom(_, _, _, _, _)
GctrFrom(rk, nonce, data, i, acc) ==
  IF Len(acc) >= Len(data) THEN acc
  ELSE GctrFrom(rk, nonce, data, i + 1,
         acc \o SubSeq(XorSeq(BlockOf(data, i),
                              AesEncryptBlock(rk, nonce \o BigEndian(i + 1, 4))),
                       1, IF 16 * i <= Len(data) THEN 16 ELSE Len(data) % 16))

\* The tag of a ciphertext under the hash key h and the cipher ek of the
\* first counter block.
GcmTagOf(h, ek, ciphertext) ==
  IF ~IsBlock(h) \/ ~IsBlock(ek) THEN <<>>
  ELSE XorSeq(GHashFrom(h, ciphertext, 1, ZeroBlock), ek)

\* The authentication tag of a ciphertext.
GcmTag(rk, nonce, ciphertext) ==
  GcmTagOf(AesEncryptBlock(rk, ZeroBlock),
           AesEncryptBlock(rk, nonce \o BigEndian(1, 4)), ciphertext)

GcmSeal(rk, nonce, ciphertext) == ciphertext \o GcmTag(rk, nonce, ciphertext)

\* Aes256Gcm::encrypt: the ciphertext followed by its tag.
Aes256Gcm_encrypt(key, nonce, plaintext) ==
  GcmSeal(RoundKeys(key), nonce, GctrFrom(RoundKeys(key), nonce, plaintext, 1, <<>>))

GcmOpen(rk, nonce, ciphertext, tag) ==
  IF Len(rk) = 0 \/ GcmTag(rk, nonce, ciphertext) # tag THEN None
  ELSE Some(GctrFrom(rk, nonce, ciphertext, 1, <<>>))

\* Aes256Gcm::decrypt: the plaintext, or None (aead::Error) when the input
\* is shorter than a tag or the tag is not the one of the ciphertext.
Aes256Gcm_decrypt(key, nonce, ciphertext) ==
  IF Len(ciphertext) < 16 THEN None
  ELSE GcmOpen(RoundKeys(key), nonce,
               SubSeq(ciphertext, 1, Len(ciphertext) - 16),
               SubSeq(ciphertext, Len(ciphertext) - 15, Len(ciphertext)))

(***************************************************************************)
(* decrypt_value with the cipher computed: what the library answers is     *)
(* the decryption of the value under the key.                              *)
(***************************************************************************)
\* An initialization vector of zero bytes.
IV_zero == [i \in 1..IVBLOCK_SIZE_AES128 |-> 0]

\* Chrome's initialization vector: 16 spaces.
IV == [i \in 1..IVBLOCK_SIZE_AES128 |-> 32]

\* ENCRYPTED_EXAMPLE of test_chrome_v10_key: "v10" and one block.
ENCRYPTED_EXAMPLE ==
  <<118, 49, 48, 233, 191, 32, 196, 207, 170, 162, 250, 141, 243, 58, 66, 96,
    66, 78, 91>>

\* value with the byte at index i xored with mask.
Altered(value, i, mask) == [value EXCEPT ![i] = Xor(@, mask)]

\* The values given to the Unix decrypt_value: the example without its
\* tag; the example with its last byte altered, cut short by one byte,
\* followed by itself; and nothing.
UnixValues ==
  {Unwrap(GetFrom(ENCRYPTED_EXAMPLE, HEADER_LEN)),
   Altered(Unwrap(GetFrom(ENCRYPTED_EXAMPLE, HEADER_LEN)), IVBLOCK_SIZE_AES128, 1),
   SubSeq(ENCRYPTED_EXAMPLE, HEADER_LEN + 1, Len(ENCRYPTED_EXAMPLE) - 1),
   Unwrap(GetFrom(ENCRYPTED_EXAMPLE, HEADER_LEN))
     \o Unwrap(GetFrom(ENCRYPTED_EXAMPLE, HEADER_LEN)),
   <<>>}

\* The keys: the default key, and the key of the password "pw1".
UnixKeys ==
  {CHROME_V10_KEY, derive_key_from_password(<<112, 119, 49>>, HASH_ROUNDS_LINUX)}

\* decrypt_value(key, encrypted_value), cfg(unix)
CallDecryptValueUnix ==
  /\ call = NoCall
  /\ \E key \in UnixKeys, encrypted_value \in UnixValues :
       \E lib \in {decrypt_padded(key, IV, encrypted_value)} :
         /\ call' = [fn |-> "decrypt_value_unix", key |-> key,
                     encrypted_value |-> encrypted_value]
         /\ ret' = decrypt_value_unix(key, encrypted_value, lib)
  /\ UNCHANGED <<reader_vars, manager_vars>>

\* The AES-256 key of the profile, as CryptUnprotectData unwraps it.
WindowsKey == [i \in 1..AES256_KEY_SIZE |-> i]

Nonce == [i \in 1..AEAD_NONCE_SIZE |-> 100 + i]

\* What Chrome stores after "v10" for the value "PE": the nonce, the
\* ciphertext and the tag.
Sealed == Nonce \o Aes256Gcm_encrypt(WindowsKey, Nonce, TextPE)

\* The bits altered in a byte: the lowest, the highest.
TamperMasks == {1, 128}

\* What the AES-GCM library answers for a stored value under a key.
windows_cipher(key, encrypted_value) ==
  IF Len(encrypted_value) < HEADER_LEN + AEAD_NONCE_SIZE THEN None
  ELSE Aes256Gcm_decrypt(key,
         SubSeq(encrypted_value, HEADER_LEN + 1, HEADER_LEN + AEAD_NONCE_SIZE),
         SubSeq(encrypted_value, HEADER_LEN + AEAD_NONCE_SIZE + 1,
                Len(encrypted_value)))

\* get_cookies of a Windows reader that holds the key, over one row whose
\* encrypted_value is "v10" and the stored value, intact (altered = 0) or
\* with one byte altered.
CallGetCookiesWindows ==
  /\ call = NoCall
  /\ \E altered \in 0..Len(Sealed), mask \in TamperMasks :
       \E encrypted_value \in {IF altered = 0 THEN TagV10 \o Sealed
                               ELSE TagV10 \o Altered(Sealed, altered, mask)} :
         \E lib \in {windows_cipher(WindowsKey, encrypted_value)} :
           /\ call' = [fn |-> "get_cookies_windows", altered |-> altered,
                       encrypted_value |-> encrypted_value]
           /\ ret' = chrome_get_cookies("windows",
                       <<ChromeRow(Text("a.com"), Text(<<>>), Blob(encrypted_value),
                                   Integer(ExpiresInRange))>>,
                       {"a.com"}, Some(WindowsKey),
                       [keyring |-> None, local_state |-> NoLocalState],
                       [os_key |-> None, rows |-> <<lib>>]).res
  /\ UNCHANGED <<reader_vars, manager_vars>>

\* The longest remainder after the tag of the values given to
\* decrypt_cookie_value: one byte past a block.
MaxRemainder == 17

\* A stored value: the tag and the first n bytes of what Chrome stores.
TaggedValue(tag, n) == tag \o SubSeq(Sealed, 1, n)

\* What the stored values start with: the two tags, and "v" and "v1",
\* which are no tag.
Heads == {TagV10, TagV11, <<118>>, <<118, 49>>}

\* The keys a reader of the build for p may hold in its cache.
CachedKeys(p) ==
  IF p = "windows" THEN {None, Some(WindowsKey)}
  ELSE IF p = "macos" THEN {None, Some(get_v10_key(Some(<<112, 119, 49>>)).val)}
  ELSE IF p = "linux" THEN {None, Some(get_v11_key(Some(<<112, 119, 49>>)).val)}
  ELSE {None}

\* What the cipher library of the build for p answers for the stored value
\* under the key.
cipher_answer(p, key, encrypted_value) ==
  IF Len(key) # (IF p = "windows" THEN AES256_KEY_SIZE ELSE IVBLOCK_SIZE_AES128)
    THEN None
  ELSE IF p = "windows" THEN windows_cipher(key, encrypted_value)
  ELSE decrypt_padded(key, IV, SubSeq(encrypted_value, HEADER_LEN + 1,
                                      Len(encrypted_value)))

\* The key of the cipher call among the events, None when the cipher was
\* not called.
cipher_key(events) ==
  IF \E j \in DOMAIN events : events[j].op = "cipher"
    THEN Some(events[CHOOSE j \in DOMAIN events : events[j].op = "cipher"].key)
  ELSE None

\* decrypt_cookie_value of the build for platform p on a stored value, the
\* local-state file missing and the cipher computed: the library answers
\* with the decryption of the value under the key it is called with.
CallDecryptCookieValue ==
  /\ call = NoCall
  /\ \E p \in Platforms, tag \in Heads, n \in 0..MaxRemainder :
       \E cache \in CachedKeys(p), kr \in Keyrings :
         \E key \in {cipher_key(decrypt_cookie_value(p, cache,
                        [keyring |-> kr, local_state |-> NoLocalState],
                        TaggedValue(tag, n), [os_key |-> None, lib |-> None]).log)} :
           \E lib \in {IF key = None THEN None
                        ELSE cipher_answer(p, Unwrap(key), TaggedValue(tag, n))} :
             /\ call' = [fn |-> "decrypt_cookie_value", platform |-> p,
                         encrypted_value |-> TaggedValue(tag, n),
                         key_cache |-> cache, keyring |-> kr]
             /\ ret' = decrypt_cookie_value(p, cache,
                         [keyring |-> kr, local_state |-> NoLocalState],
                         TaggedValue(tag, n), [os_key |-> None, lib |-> lib])
  /\ UNCHANGED <<reader_vars, manager_vars>>

(***************************************************************************)
(* filter_hosts (cli, app.rs) and BaseDomain (cli, url.rs).  A str is the  *)
(* sequence of its characters; a Uri is known by its host().               *)
(***************************************************************************)
MaxDomainLen == 4

MaxHosts == 2

Uri(host) == [host |-> host]

\* s.ends_with(t)
ends_with(s, t) ==
  /\ Len(t) <= Len(s)
  /\ SubSeq(s, Len(s) - Len(t) + 1, Len(s)) = t

\* The index of the last '.' of s, 0 if there is none.
RECURSIVE rfind_dot(_, _)
rfind_dot(s, i) ==
  IF i = 0 THEN 0 ELSE IF s[i] = "." THEN i ELSE rfind_dot(s, i - 1)

\* s.split('.')
RECURSIVE split_dot(_)
split_dot(s) ==
  LET i == rfind_dot(s, Len(s))
  IN  IF i = 0 THEN <<s>>
      ELSE Append(split_dot(SubSeq(s, 1, i - 1)), SubSeq(s, i + 1, Len(s)))

Digits == <<"0", "1", "2", "3", "4", "5", "6", "7", "8", "9">>

DigitValue(ch) == (CHOOSE i \in DOMAIN Digits : Digits[i] = ch) - 1

\* One part of a dotted IPv4 address: 1 to 3 decimal digits, at most 255,
\* without a leading zero.
IsOctet(part) ==
  /\ Len(part) \in 1..3
  /\ \A i \in DOMAIN part : \E d \in DOMAIN Digits : Digits[d] = part[i]
  /\ (Len(part) > 1 => part[1] # "0")
  /\ (Len(part) = 3 =>
        100 * DigitValue(part[1]) + 10 * DigitValue(part[2])
          + DigitValue(part[3]) <= 255)

\* Ipv4Addr::from_str(host).is_ok()
IsIpv4(host) ==
  LET parts == split_dot(host)
  IN  Len(parts) = 4 /\ \A i \in DOMAIN parts : IsOctet(parts[i])

\* is_domain: not a bracketed IPv6 literal and not an IPv4 address.
is_domain(host) == ~(Len(host) > 0 /\ host[1] = "[") /\ ~IsIpv4(host)

\* A base_domain that keeps the whole host of a domain name.
base_domain_whole_host(uri) ==
  IF uri.host = None THEN None
  ELSE IF ~is_domain(Unwrap(uri.host)) THEN None
  ELSE IF rfind_dot(Unwrap(uri.host), Len(Unwrap(uri.host))) = 0 THEN None
  ELSE uri.host

\* Uri::base_domain: the last two of the host's dot-separated parts
\* (rsplitn(3, '.')), None for an address and for a host without a dot.
base_domain(uri) ==
  IF uri.host = None THEN None
  ELSE IF ~is_domain(Unwrap(uri.host)) THEN None
  ELSE LET host == Unwrap(uri.host)
           i == rfind_dot(host, Len(host))
           ext == SubSeq(host, i + 1, Len(host))
           rest == SubSeq(host, 1, i - 1)
           j == rfind_dot(rest, Len(rest))
           base_domain_part == SubSeq(rest, j + 1, Len(rest))
       IN  IF i = 0 THEN None
           ELSE Some(base_domain_part \o <<".">> \o ext)

\* The domain without its leading dot, if it has one.
cookie_valid_domain(domain) ==
  IF Len(domain) > 0 /\ domain[1] = "." THEN SubSeq(domain, 2, Len(domain))
  ELSE domain

\* hosts.iter().any(...) from the i-th host on: true at the first host that
\* matches, a panic at a Uri with neither base domain nor host.
RECURSIVE any_host(_, _, _)
any_host(valid_domain, hosts, i) ==
  IF i > Len(hosts) THEN Ok(FALSE)
  ELSE LET h == hosts[i]
           base_or_host == IF base_domain(h) # None THEN base_domain(h)
                           ELSE h.host
       IN  IF Some(valid_domain) = h.host THEN Ok(TRUE)
           ELSE IF base_or_host = None THEN Panic("unwrap on None")
           ELSE IF ends_with(Unwrap(base_or_host), valid_domain) THEN Ok(TRUE)
           ELSE any_host(valid_domain, hosts, i + 1)

\* filter_hosts without the test for an empty domain.
filter_hosts_any_domain(domain, hosts) ==
  IF hosts = <<>> THEN Ok(TRUE)
  ELSE any_host(cookie_valid_domain(domain), hosts, 1)

\* filter_hosts(domain, hosts)
filter_hosts(domain, hosts) ==
  IF cookie_valid_domain(domain) = <<>> THEN Ok(FALSE)
  ELSE IF hosts = <<>> THEN Ok(TRUE)
  ELSE any_host(cookie_valid_domain(domain), hosts, 1)

\* The cookie domains: the strings of at most MaxDomainLen characters over
\* a, b and the dot.
Domains == UNION {[1..n -> {"a", "b", "."}] : n \in 0..MaxDomainLen}

\* The URIs given as hosts: https://ab.a, https://b.ab.a, https://ab,
\* https://1.1.1.1, https://[::1]/ and the path-only /p.
Uris ==
  {Uri(Some(<<"a", "b", ".", "a">>)),
   Uri(Some(<<"b", ".", "a", "b", ".", "a">>)),
   Uri(Some(<<"a", "b">>)),
   Uri(Some(<<"1", ".", "1", ".", "1", ".", "1">>)),
   Uri(Some(<<"[", ":", ":", "1", "]">>)),
   Uri(None)}

HostLists == UNION {[1..n -> Uris] : n \in 0..MaxHosts}

CallFilterHosts ==
  /\ call = NoCall
  /\ \E domain \in Domains, hosts \in HostLists :
       /\ call' = [fn |-> "filter_hosts", domain |-> domain, hosts |-> hosts]
       /\ ret' = filter_hosts(domain, hosts)
  /\ UNCHANGED <<reader_vars, manager_vars>>

\* The index of the first ch of s from index i on, 0 if there is none.
RECURSIVE find_char(_, _, _)
find_char(s, ch, i) ==
  IF i > Len(s) THEN 0 ELSE IF s[i] = ch THEN i ELSE find_char(s, ch, i + 1)

\* Uri::host of a URI with this authority (host and optional port): a
\* bracketed address with its brackets, otherwise what precedes the colon.
authority_host(authority) ==
  IF Len(authority) > 0 /\ authority[1] = "["
    THEN IF find_char(authority, "]", 1) = 0 THEN authority
         ELSE SubSeq(authority, 1, find_char(authority, "]", 1))
  ELSE IF find_char(authority, ":", 1) = 0 THEN authority
  ELSE SubSeq(authority, 1, find_char(authority, ":", 1) - 1)

\* The hosts of the URIs base_domain is called on: the non-empty strings
\* of at most MaxDomainLen characters over a, b and the dot, b.ab.a,
\* 1.1.1.1, 256.1.1.1, 1.1.1 and [::1].
HostInputs ==
  (Domains \ {<<>>})
    \cup {<<"b", ".", "a", "b", ".", "a">>,
          <<"1", ".", "1", ".", "1", ".", "1">>,
          <<"2", "5", "6", ".", "1", ".", "1", ".", "1">>,
          <<"1", ".", "1", ".", "1">>,
          <<"[", ":", ":", "1", "]">>}

\* The authorities: each host, alone and followed by the port :8.
Authorities == HostInputs \cup {host \o <<":", "8">> : host \in HostInputs}

\* uri.base_domain()
CallBaseDomain ==
  /\ call = NoCall
  /\ \E authority \in Authorities :
       /\ call' = [fn |-> "base_domain", authority |-> authority]
       /\ ret' = base_domain(Uri(Some(authority_host(authority))))
  /\ UNCHANGED <<reader_vars, manager_vars>>

(***************************************************************************)
(* PathProvider::get_default_profile_path (firefox/paths.rs).  A           *)
(* tini::Ini is the sequence of its sections in the order of the file;     *)
(* each has a name, the sequence of its characters, and the values of its  *)
(* keys.                                                                   *)
(***************************************************************************)
MaxSections == 3

Install == <<"I", "n", "s", "t", "a", "l", "l">>

Profile == <<"P", "r", "o", "f", "i", "l", "e">>

\* Section::get(key)
section_get(section, key) ==
  IF key \in DOMAIN section THEN Some(section[key]) ELSE None

\* Iterator::next on the items left: the first, if any.
iter_next(items) == IF Len(items) = 0 THEN None ELSE Some(Head(items))

IsInstall(item) == StartsWith(item.name, Install)

IsDefaultProfile(item) ==
  /\ StartsWith(item.name, Profile)
  /\ section_get(item.section, "Default") = Some("1")

\* A lookup that prefers the Profile sections to the Install sections.
get_default_profile_path_profile_first(profile_config) ==
  IF iter_next(SelectSeq(profile_config, IsDefaultProfile)) # None
    THEN section_get(
           Unwrap(iter_next(SelectSeq(profile_config, IsDefaultProfile))).section,
           "Path")
  ELSE IF iter_next(SelectSeq(profile_config, IsInstall)) # None
    THEN section_get(
           Unwrap(iter_next(SelectSeq(profile_config, IsInstall))).section,
           "Default")
  ELSE None

get_default_profile_path(profile_config) ==
  IF iter_next(SelectSeq(profile_config, IsInstall)) # None
    THEN section_get(
           Unwrap(iter_next(SelectSeq(profile_config, IsInstall))).section,
           "Default")
  ELSE IF iter_next(SelectSeq(profile_config, IsDefaultProfile)) # None
    THEN section_get(
           Unwrap(iter_next(SelectSeq(profile_config, IsDefaultProfile))).section,
           "Path")
  ELSE None

\* The names of sections: two installations, two profiles, and General.
SectionNames ==
  {Install \o <<"A">>, Install \o <<"B">>, Profile \o <<"0">>, Profile \o <<"1">>,
   <<"G", "e", "n", "e", "r", "a", "l">>}

\* The keys of a section: Default (absent, "1", or a path) and Path.
Sections ==
  {<<>>, [Default |-> "1"], [Default |-> "d"], [Path |-> "p"],
   [Default |-> "1", Path |-> "p"], [Default |-> "d", Path |-> "p"]}

\* The profiles.ini files of up to MaxSections sections of distinct names.
IniFiles ==
  {ini \in UNION {[1..n -> [name : SectionNames, section : Sections]] :
                    n \in 0..MaxSections} :
     \A i \in 1..Len(ini), j \in 1..Len(ini) : ini[i].name = ini[j].name => i = j}

CallGetDefaultProfilePath ==
  /\ call = NoCall
  /\ \E profile_config \in IniFiles :
       /\ call' = [fn |-> "get_default_profile_path", profile_config |-> profile_config]
       /\ ret' = get_default_profile_path(profile_config)
  /\ UNCHANGED <<reader_vars, manager_vars>>

\* The caller takes the returned value; the next call can be made.
Return ==
  /\ call # NoCall
  /\ call' = NoCall
  /\ ret' = NoCall
  /\ UNCHANGED <<reader_vars, manager_vars>>

InitCalls ==
  /\ ReaderIdle
  /\ call = NoCall
  /\ ret = NoCall
  /\ fs = {}
  /\ conn = None
  /\ ManagerIdle

NextCalls ==
  \/ CallChromeToUnix
  \/ CallChromeCookie
  \/ CallFirefoxRow
  \/ CallFilterHosts
  \/ CallDecryptValueUnix
  \/ CallGetCookiesWindows
  \/ CallGetDefaultProfilePath
  \/ CallBaseDomain
  \/ CallDecryptCookieValue
  \/ Return

SpecCalls == InitCalls /\ [][NextCalls]_vars

\* C11: chrome_to_unix_timestamp_nanos(t) is (t - 11644473600000000) * 1000
\* for every i64 t, the exact integer: the epoch offset maps to 0, and 0 to
\* -11644473600000000000.
C11_TimestampExact ==
  call.fn = "chrome_to_unix_timestamp_nanos" =>
    /\ ret = BigMul1000(BigSub(call.chrome_time, WINDOWS_UNIX_EPOCH_OFFSET_MICROS))
    /\ call.chrome_time = WINDOWS_UNIX_EPOCH_OFFSET_MICROS => ret = Big(FALSE, <<>>)
    /\ call.chrome_time = Big(FALSE, <<>>)
         => ret = Big(TRUE, <<11, 644, 473, 600, 0, 0, 0>>)

\* The conversion of i64::MAX, the input with the largest product.
C11_Witness ==
  /\ call.fn = "chrome_to_unix_timestamp_nanos"
  /\ call.chrome_time = Big(FALSE, <<9, 223, 372, 36, 854, 775, 807>>)
  /\ ret = Big(FALSE, <<9, 211, 727, 563, 254, 775, 807, 0>>)

(***************************************************************************)
(* Output formatters (cli, app/output.rs), as far as they read the         *)
(* cookie's optional parameters.                                           *)
(***************************************************************************)
\* The line netscape writes for a cookie: each optional parameter is
\* unwrapped, the expiry must be a date-time.
netscape_line(cookie) ==
  IF \/ cookie.domain = None \/ cookie.path = None \/ cookie.secure = None
     \/ cookie.expires = None
    THEN Panic("unwrap on None")
  ELSE IF Expiration_datetime(Unwrap(cookie.expires)) = None
    THEN Panic("unwrap on None")
  ELSE Ok([domain |-> Unwrap(cookie.domain), path |-> Unwrap(cookie.path),
           secure |-> Unwrap(cookie.secure),
           expiration |->
             BigDivFloor1e9(Unwrap(Expiration_datetime(Unwrap(cookie.expires)))),
           name |-> cookie.name, value |-> cookie.value])

\* netscape: the lines written after the header, or the first panic.
netscape(cookies) ==
  LET lines == [k \in DOMAIN cookies |-> netscape_line(cookies[k])]
      panics == {k \in DOMAIN lines : IsPanic(lines[k])}
  IN  IF panics # {} THEN lines[CHOOSE k \in panics : \A j \in panics : k <= j]
      ELSE Ok([k \in DOMAIN lines |-> lines[k].val])

\* The RawHttpieCookieV0 of a cookie: domain, path and secure are
\* unwrapped, the expiry is kept when it is a date-time.
httpie_cookie(cookie) ==
  IF cookie.domain = None \/ cookie.path = None \/ cookie.secure = None
    THEN Panic("unwrap on None")
  ELSE Ok([name |-> cookie.name, value |-> cookie.value,
           domain |-> Unwrap(cookie.domain), path |-> Unwrap(cookie.path),
           secure |-> Unwrap(cookie.secure),
           expires |->
             IF cookie.expires = None THEN None
             ELSE IF Expiration_datetime(Unwrap(cookie.expires)) = None THEN None
             ELSE Some(BigDivFloor1e9(
                         Unwrap(Expiration_datetime(Unwrap(cookie.expires))))),
           discard |-> FALSE, rfc2109 |-> FALSE])

\* httpie_session: the cookies of the session written, or the first panic.
httpie_session(cookies) ==
  LET raw == [k \in DOMAIN cookies |-> httpie_cookie(cookies[k])]
      panics == {k \in DOMAIN raw : IsPanic(raw[k])}
  IN  IF panics # {} THEN raw[CHOOSE k \in panics : \A j \in panics : k <= j]
      ELSE Ok([k \in DOMAIN raw |-> raw[k].val])

\* C12: every cookie a reader returns has its domain, path, expiry (a
\* date-time), secure, http_only and same_site set, and neither netscape
\* nor httpie_session panics on what a reader returned.
C12_CookiesTotal ==
  IsOk(result) =>
    /\ \A k \in DOMAIN result.val :
         LET cookie == result.val[k]
         IN  /\ IsSome(cookie.domain) /\ IsSome(cookie.path)
             /\ IsSome(cookie.secure) /\ IsSome(cookie.http_only)
             /\ IsSome(cookie.same_site) /\ IsSome(cookie.expires)
             /\ IsSome(Expiration_datetime(Unwrap(cookie.expires)))
    /\ IsOk(netscape(result.val))
    /\ IsOk(httpie_session(result.val))

\* A reader returned two cookies and both formatters wrote them.
C12_Witness ==
  /\ IsOk(result)
  /\ Len(result.val) = 2
  /\ Len(netscape(result.val).val) = 2
  /\ Len(httpie_session(result.val).val) = 2
  /\ netscape(result.val).val[1].path = "/"

\* C13: in both readers the same-site column decodes as 0 -> None,
\* 1 -> Lax and every other integer -> Strict.
C13_SameSiteDecode ==
  call.fn \in {"chrome_cookie", "firefox_row"} =>
    /\ IsOk(ret)
    /\ ret.val.same_site =
         Some(IF call.same_site = Big(FALSE, <<>>) THEN "None"
              ELSE IF call.same_site = Big(FALSE, <<1>>) THEN "Lax"
              ELSE "Strict")

\* The last two dot-separated labels of a name (the whole name when it has
\* fewer).
LastTwoLabels(name) ==
  LET i == rfind_dot(name, Len(name))
      j == rfind_dot(SubSeq(name, 1, i - 1), i - 1)
  IN  IF i = 0 THEN name ELSE SubSeq(name, j + 1, Len(name))

\* C14: with a non-empty host list, filter_hosts returns true whenever the
\* domain without its leading dot is the host of a listed URI or the last
\* two labels of that host, and returns false for a domain whose base
\* domain differs from the base domain of every listed host (stated for
\* lists whose URIs all have a host).
C14_FilterHostsByBaseDomain ==
  (/\ call.fn = "filter_hosts"
   /\ call.hosts # <<>>
   /\ \A i \in DOMAIN call.hosts : IsSome(call.hosts[i].host)) =>
    LET valid_domain == cookie_valid_domain(call.domain)
        listed == {Unwrap(call.hosts[i].host) :
                     i \in {k \in DOMAIN call.hosts : IsSome(call.hosts[k].host)}}
    IN  /\ (\E host \in listed :
              valid_domain = host \/ valid_domain = LastTwoLabels(host))
            => ret = Ok(TRUE)
        /\ (\A host \in listed :
              LastTwoLabels(valid_domain) # LastTwoLabels(host))
            => ret = Ok(FALSE)

\* C15: with an empty host list filter_hosts returns true for every domain
\* that is non-empty without its leading dot; for the empty domain and for
\* "." it returns false whatever the host list.
C15_FilterHostsEmptyCases ==
  call.fn = "filter_hosts" =>
    /\ (call.hosts = <<>> /\ cookie_valid_domain(call.domain) # <<>>)
         => ret = Ok(TRUE)
    /\ call.domain \in {<<>>, <<".">>} => ret = Ok(FALSE)

\* filter_hosts(".", hosts) was called with a list whose first URI has no
\* host.
C15_Witness ==
  /\ call.fn = "filter_hosts"
  /\ call.domain = <<".">>
  /\ Len(call.hosts) = MaxHosts
  /\ call.hosts[1] = Uri(None)
  /\ ret = Ok(FALSE)

(***************************************************************************)
(* The manager's calls step by step: new, get_cookies with the host_filter *)
(* evaluation of every row, and set_filter.  The mutex is the only order   *)
(* the code puts between a row evaluation and a replacement, so the two    *)
(* callers are left to interleave freely.                                  *)
(***************************************************************************)
\* The rows of the table: plain cookies of a.com and of b.org.
FilterRows ==
  {ChromeRow(Text(h), Text(TextPE), Blob(<<>>), Integer(ExpiresInRange)) :
     h \in {"a.com", "b.org"}}

\* ChromeManager::new / FirefoxManager::new: the database is opened, then
\* the predicate is put behind its mutex and host_filter registered.
New ==
  /\ browser = "none"
  /\ \E b \in {"chrome", "firefox"}, f \in Filters, bypass_lock \in BOOLEAN :
       \E r \in {get_connection(fs, DbFile, bypass_lock)} :
         /\ call' = [fn |-> "new", bypass_lock |-> bypass_lock]
         /\ fs' = r.fs
         /\ IF IsOk(r.res)
              THEN /\ browser' = b
                   /\ conn' = Some(r.res.val)
                   /\ filter' = f
                   /\ installed' = Some(f)
                   /\ result' = [tag |-> "None"]
              ELSE /\ result' = Err([kind |-> "DatabaseOpen", source |-> r.res.err])
                   /\ UNCHANGED <<browser, conn, filter, installed>>
  /\ UNCHANGED <<platform, db, key_cache, keyring, local_state, lookups, log,
                 ret, mutex, query, setter, evals>>

\* get_cookies is called: the statement starts at the first row.
GetCookies ==
  /\ browser # "none"
  /\ query.pc = "idle"
  /\ query' = [QueryIdle EXCEPT !.pc = "row", !.row = 1]
  /\ evals' = <<>>
  /\ result' = [tag |-> "None"]
  /\ UNCHANGED <<browser, platform, db, filter, key_cache, keyring, local_state,
                 lookups, log, call, ret, fs, conn, mutex, setter, installed>>

\* SQLite calls host_filter for the next row: the evaluation starts.
HostFilterCall ==
  /\ query.pc = "row"
  /\ query.row <= Len(db)
  /\ query' = [query EXCEPT !.pc = "lock", !.installed = installed,
                            !.overlap = IF setter.pc = "idle" THEN {}
                                        ELSE {setter.arg},
                            !.used = <<>>]
  /\ UNCHANGED <<reader_vars, call, ret, fs, conn, mutex, setter, installed,
                 evals>>

\* filter.lock()
HostFilterLock ==
  /\ query.pc = "lock"
  /\ mutex = "free"
  /\ mutex' = "host_filter"
  /\ query' = [query EXCEPT !.pc = "eval"]
  /\ UNCHANGED <<reader_vars, call, ret, fs, conn, setter, installed, evals>>

\* f(&host): the predicate behind the mutex is run on the row's host.
HostFilterEval ==
  /\ query.pc = "eval"
  /\ query' = [query EXCEPT !.pc = "unlock", !.used = Append(@, filter)]
  /\ UNCHANGED <<reader_vars, call, ret, fs, conn, mutex, setter, installed,
                 evals>>

\* The closure returns without releasing the lock.
HostFilterReturnLocked ==
  /\ query.pc = "unlock"
  /\ evals' = Append(evals, [row |-> query.row, installed |-> query.installed,
                             overlap |-> query.overlap, used |-> query.used])
  /\ query' = [query EXCEPT !.pc = "row", !.row = @ + 1]
  /\ UNCHANGED <<reader_vars, call, ret, fs, conn, mutex, setter, installed>>

\* The closure returns: the guard is dropped, the row is selected when the
\* predicate held.
HostFilterUnlock ==
  /\ query.pc = "unlock"
  /\ mutex' = "free"
  /\ evals' = Append(evals, [row |-> query.row, installed |-> query.installed,
                             overlap |-> query.overlap, used |-> query.used])
  /\ query' = [query EXCEPT
                 !.pc = "row", !.row = @ + 1,
                 !.selected =
                   IF db[query.row].host_key.v \in query.used[Len(query.used)]
                     THEN Append(@, query.row) ELSE @]
  /\ UNCHANGED <<reader_vars, call, ret, fs, conn, setter, installed>>

\* No row is left: get_cookies returns (the selected rows stand for their
\* cookies).
GetCookiesReturn ==
  /\ query.pc = "row"
  /\ query.row > Len(db)
  /\ result' = Ok(query.selected)
  /\ query' = QueryIdle
  /\ UNCHANGED <<browser, platform, db, filter, key_cache, keyring, local_state,
                 lookups, log, call, ret, fs, conn, mutex, setter, installed,
                 evals>>

\* set_filter(p) is called.
SetFilterCall ==
  /\ browser = "chrome"
  /\ setter.pc = "idle"
  /\ \E p \in Filters :
       /\ setter' = [pc |-> "lock", arg |-> p]
       /\ query' = IF query.pc = "lock"
                     THEN [query EXCEPT !.overlap = @ \cup {p}]
                   ELSE query
  /\ UNCHANGED <<reader_vars, call, ret, fs, conn, mutex, installed, evals>>

\* self.filter.lock()
SetFilterLock ==
  /\ setter.pc = "lock"
  /\ mutex = "free"
  /\ mutex' = "set_filter"
  /\ setter' = [setter EXCEPT !.pc = "store"]
  /\ UNCHANGED <<reader_vars, call, ret, fs, conn, query, installed, evals>>

\* *f = filter
SetFilterStore ==
  /\ setter.pc = "store"
  /\ filter' = setter.arg
  /\ setter' = [setter EXCEPT !.pc = "unlock"]
  /\ UNCHANGED <<browser, platform, db, key_cache, keyring, local_state,
                 lookups, result, log, call, ret, fs, conn, mutex, query,
                 installed, evals>>

\* set_filter returns: the guard is dropped.
SetFilterReturn ==
  /\ setter.pc = "unlock"
  /\ mutex' = "free"
  /\ installed' = Some(setter.arg)
  /\ setter' = SetterIdle
  /\ UNCHANGED <<reader_vars, call, ret, fs, conn, query, evals>>

\* Before new: the cookie database exists with its rows, or does not.
InitManager ==
  /\ browser = "none"
  /\ platform = "none"
  /\ \/ fs = {DbFile} /\ db \in Tables(FilterRows)
     \/ fs = {} /\ db = <<>>
  /\ filter = {}
  /\ key_cache = None
  /\ keyring = None
  /\ local_state = NoLocalState
  /\ lookups = 0
  /\ result = [tag |-> "None"]
  /\ log = <<>>
  /\ call = NoCall
  /\ ret = NoCall
  /\ conn = None
  /\ ManagerIdle

NextManager ==
  \/ New
  \/ GetCookies
  \/ HostFilterCall
  \/ HostFilterLock
  \/ HostFilterEval
  \/ HostFilterUnlock
  \/ GetCookiesReturn
  \/ SetFilterCall
  \/ SetFilterLock
  \/ SetFilterStore
  \/ SetFilterReturn

\* A caller that holds the lock goes on running: the predicate returns, the
\* assignment is made and the guards are dropped.
SpecManager ==
  /\ InitManager
  /\ [][NextManager]_vars
  /\ WF_vars(HostFilterEval)
  /\ WF_vars(HostFilterUnlock)
  /\ WF_vars(SetFilterStore)
  /\ WF_vars(SetFilterReturn)

\* The row evaluations made so far: those finished, and the one that has
\* run its predicate.
Evaluations ==
  {evals[i] : i \in DOMAIN evals}
  \cup (IF query.pc = "unlock"
          THEN {[row |-> query.row, installed |-> query.installed,
                 overlap |-> query.overlap, used |-> query.used]}
        ELSE {})

\* Every evaluation ran one predicate: the one of the last new or
\* set_filter that had returned when it started, or the one of a set_filter
\* that was in progress after that.  The lock is held exactly while a row
\* evaluation or a replacement is between its lock and its return.
SetFilterAtomic ==
  /\ \A e \in Evaluations :
       /\ Len(e.used) = 1
       /\ e.used[1] \in {Unwrap(e.installed)} \cup e.overlap
       /\ (e.overlap = {} => e.used[1] = Unwrap(e.installed))
  /\ (mutex = "host_filter") = (query.pc \in {"eval", "unlock"})
  /\ (mutex = "set_filter") = (setter.pc \in {"store", "unlock"})
  /\ mutex \in {"free", "host_filter", "set_filter"}

\* C16: set_filter replaces the predicate atomically under the mutex: an
\* evaluation that starts after set_filter(p) returned uses p, every row
\* evaluation runs exactly one predicate, and the lock is held for one row
\* evaluation or one replacement only, so it is always released again.
C16_SetFilterAtomic ==
  /\ []SetFilterAtomic
  /\ (mutex # "free") ~> (mutex = "free")

\* get_cookies has evaluated two rows; set_filter(p) returned between the
\* two with a predicate other than the one the first row was run with, and
\* the second row, started after that, ran p.
C16_Witness ==
  /\ Len(evals) = 2
  /\ evals[1].used[1] # evals[2].used[1]
  /\ evals[2].overlap = {}
  /\ evals[2].installed = Some(evals[2].used[1])
  /\ evals[1].installed # evals[2].installed

\* C17: the connection of a manager is opened read-only, in URI mode with
\* immutable=1 when bypass_lock is set, and no step of new, get_cookies or
\* set_filter changes the database: neither its rows nor whether its file
\* exists.
C17_DatabaseNeverWritten ==
  /\ [](conn # None =>
         /\ "SQLITE_OPEN_READ_ONLY" \in Unwrap(conn).flags
         /\ "SQLITE_OPEN_READ_WRITE" \notin Unwrap(conn).flags
         /\ "SQLITE_OPEN_CREATE" \notin Unwrap(conn).flags
         /\ Unwrap(conn).file = DbFile
         /\ (call.bypass_lock =>
               /\ "SQLITE_OPEN_URI" \in Unwrap(conn).flags
               /\ Unwrap(conn).immutable))
  /\ [][db' = db /\ fs' = fs]_vars

\* A manager made with bypass_lock has returned the cookies of two rows
\* after its filter was replaced.
C17_Witness ==
  /\ conn # None
  /\ call.bypass_lock
  /\ Unwrap(conn).immutable
  /\ IsOk(result)
  /\ Len(result.val) = 2
  /\ Len(evals) = 2
  /\ evals[1].installed # evals[2].installed

\* C18: on Windows a stored value whose tag or ciphertext has an altered
\* byte, decrypted with the right key, fails with InvalidInput wrapped in
\* CookieValueDecrypt; no plaintext is returned for it.
C18_TamperedValueRejected ==
  (call.fn = "get_cookies_windows" /\ call.altered > AEAD_NONCE_SIZE) =>
    ret = Err([kind |-> "CookieValueDecrypt",
               source |-> DErr("CookieValueDecrypt", "", "InvalidInput")])

\* The last byte of the tag was altered and the call failed; the intact
\* value decrypts to "PE" under the same key.
C18_Witness ==
  /\ call.fn = "get_cookies_windows"
  /\ call.altered = Len(Sealed)
  /\ IsErr(ret)
  /\ windows_cipher(WindowsKey, TagV10 \o Sealed) = Some(TextPE)
  /\ windows_cipher(WindowsKey, call.encrypted_value) = None

\* C19: the Unix decrypt_value with CHROME_V10_KEY on the 16 bytes
\* e9 bf 20 c4 cf aa a2 fa 8d f3 3a 42 60 42 4e 5b returns "PENDING+400".
C19_DefaultKeyExample ==
  (/\ call.fn = "decrypt_value_unix"
   /\ call.key = CHROME_V10_KEY
   /\ call.encrypted_value =
        <<233, 191, 32, 196, 207, 170, 162, 250, 141, 243, 58, 66, 96, 66, 78, 91>>)
    => ret = Ok(<<80, 69, 78, 68, 73, 78, 71, 43, 52, 48, 48>>)

\* decrypt_value was called with the default key on the example.
C19_Witness ==
  /\ call.fn = "decrypt_value_unix"
  /\ call.key = CHROME_V10_KEY
  /\ call.encrypted_value = Unwrap(GetFrom(ENCRYPTED_EXAMPLE, HEADER_LEN))
  /\ IsOk(ret)
  /\ Len(ret.val) = 11

(***************************************************************************)
(* SessionBuilder::build (cli, app/session.rs) step by step.  call holds   *)
(* the position of the call, ret what it returns; fs, conn and db are the  *)
(* files, the manager's connection and the rows of the session's cookie    *)
(* database.                                                               *)
(***************************************************************************)
\* The directory tempdir() creates, and the cookie database under it.
TempDir == <<"tmp">>

SessionDb == TempDir \o DbFile

\* path is dir or lies under it.
IsUnder(path, dir) ==
  Len(dir) <= Len(path) /\ SubSeq(path, 1, Len(dir)) = dir

\* The rows a browser leaves in the session's database: Firefox a cookie
\* of a.com, one of b.org, one whose expiry is past the maximum; Chrome a
\* plain and a v10-encrypted cookie of a.com.
SessionRows(b) ==
  IF b = "firefox"
    THEN {FirefoxRow(Text("a.com"), Text(TextPE), Integer(MAX_TIMESTAMP), Integer(1)),
          FirefoxRow(Text("b.org"), Text(TextPE), Integer(MAX_TIMESTAMP), Integer(1)),
          FirefoxRow(Text("a.com"), Text(TextPE),
                     Integer(BigAdd(MAX_TIMESTAMP, Big(FALSE, <<1>>))), Integer(1))}
  ELSE {ChromeRow(Text("a.com"), Text(TextPE), Blob(<<>>), Integer(ExpiresInRange)),
        ChromeRow(Text("a.com"), Text(<<>>), Blob(TagV10 \o Ciphertext),
                  Integer(ExpiresInRange))}

\* build is called on a builder for a browser, with hosts to filter by.
Build ==
  /\ call = NoCall
  /\ \E b \in {"firefox", "chrome"}, f \in Filters :
       /\ browser' = b
       /\ filter' = f
       /\ call' = [fn |-> "build", pc |-> "tempdir", created |-> FALSE,
                   child |-> "none", exit |-> "none"]
  /\ UNCHANGED <<platform, db, key_cache, keyring, local_state, lookups, result,
                 log, ret, manager_vars>>

\* tempdir()?: the directory is created.
Tempdir ==
  /\ call.fn = "build"
  /\ call.pc = "tempdir"
  /\ fs' = fs \cup {TempDir}
  /\ call' = [call EXCEPT !.pc = "spawn", !.created = TRUE]
  /\ UNCHANGED <<reader_vars, ret, conn, mutex, query, setter, installed, evals>>

\* tempdir()? fails: build returns before any directory exists.
TempdirFails ==
  /\ call.fn = "build"
  /\ call.pc = "tempdir"
  /\ call' = [call EXCEPT !.pc = "returned", !.exit = "tempdir"]
  /\ ret' = Err([kind |-> "Io"])
  /\ UNCHANGED <<reader_vars, manager_vars>>

\* Command::new(..).spawn(): the browser runs on the directory.
Spawn ==
  /\ call.fn = "build"
  /\ call.pc = "spawn"
  /\ call' = [call EXCEPT !.pc = "wait", !.child = "running"]
  /\ UNCHANGED <<reader_vars, ret, manager_vars>>

\* spawn() fails: `?` leaves build with the error.
SpawnFails ==
  /\ call.fn = "build"
  /\ call.pc = "spawn"
  /\ call' = [call EXCEPT !.pc = "drop_context", !.exit = "spawn"]
  /\ ret' = Err([kind |-> "Failed to run the browser"])
  /\ UNCHANGED <<reader_vars, manager_vars>>

\* The running browser writes its cookie database into the profile.
ChildWritesCookies ==
  /\ call.fn = "build"
  /\ call.child = "running"
  /\ SessionDb \notin fs
  /\ fs' = fs \cup {SessionDb}
  /\ db' \in Tables(SessionRows(browser))
  /\ UNCHANGED <<browser, platform, filter, key_cache, keyring, local_state,
                 lookups, result, log, call, ret, conn, mutex, query, setter,
                 installed, evals>>

\* The user closes the browser.
ChildExits ==
  /\ call.fn = "build"
  /\ call.child = "running"
  /\ call' = [call EXCEPT !.child = "exited"]
  /\ UNCHANGED <<reader_vars, ret, manager_vars>>

\* child.wait()? returns once the browser has exited.
Wait ==
  /\ call.fn = "build"
  /\ call.pc = "wait"
  /\ call.child = "exited"
  /\ call' = [call EXCEPT !.pc = "new"]
  /\ UNCHANGED <<reader_vars, ret, manager_vars>>

\* child.wait()? fails (the browser is gone and was not waited for here).
WaitFails ==
  /\ call.fn = "build"
  /\ call.pc = "wait"
  /\ call.child = "exited"
  /\ call' = [call EXCEPT !.pc = "drop_context", !.exit = "wait"]
  /\ ret' = Err([kind |-> "Io"])
  /\ UNCHANGED <<reader_vars, manager_vars>>

\* FirefoxManager::new / ChromeManager::new(.., filter, false)?: the
\* session's database is opened, or `?` leaves build with the error.
SessionNew ==
  /\ call.fn = "build"
  /\ call.pc = "new"
  /\ \E r \in {get_connection(fs, SessionDb, FALSE)} :
       /\ fs' = r.fs
       /\ IF IsOk(r.res)
            THEN /\ conn' = Some(r.res.val)
                 /\ installed' = Some(filter)
                 /\ call' = [call EXCEPT !.pc = "get_cookies"]
                 /\ ret' = ret
            ELSE /\ call' = [call EXCEPT !.pc = "drop_context", !.exit = "open"]
                 /\ ret' = Err([kind |-> "DatabaseOpen", source |-> r.res.err])
                 /\ UNCHANGED <<conn, installed>>
  /\ UNCHANGED <<reader_vars, mutex, query, setter, evals>>

\* manager.get_cookies()?: the cookies, or the error or the panic that
\* leaves build; the manager is dropped next in each case.
SessionGetCookies ==
  /\ call.fn = "build"
  /\ call.pc = "get_cookies"
  /\ \E lib \in (IF browser = "firefox" THEN {<<>>} ELSE LibChoices(db)) :
       \E r \in {IF browser = "firefox" THEN firefox_get_cookies(db, filter)
                 ELSE chrome_get_cookies("linux", db, filter, None,
                        [keyring |-> None, local_state |-> NoLocalState],
                        [os_key |-> None, rows |-> lib]).res} :
         /\ ret' = r
         /\ call' = [call EXCEPT !.pc = "drop_manager",
                                 !.exit = IF IsOk(r) THEN "Ok" ELSE "query"]
  /\ UNCHANGED <<reader_vars, manager_vars>>

\* The manager goes out of scope: its connection is closed.
DropManager ==
  /\ call.fn = "build"
  /\ call.pc = "drop_manager"
  /\ conn' = None
  /\ call' = [call EXCEPT !.pc = "drop_context"]
  /\ UNCHANGED <<reader_vars, ret, fs, mutex, query, setter, installed, evals>>

\* A build that keeps the directory (TempDir::into_path) when it returns.
DropContextKept ==
  /\ call.fn = "build"
  /\ call.pc = "drop_context"
  /\ call' = [call EXCEPT !.pc = "returned"]
  /\ UNCHANGED <<reader_vars, ret, manager_vars>>

\* session_context, declared first, is dropped last: TempDir::drop removes
\* the directory and what is in it, and build returns.
DropContext ==
  /\ call.fn = "build"
  /\ call.pc = "drop_context"
  /\ fs' = {path \in fs : ~IsUnder(path, TempDir)}
  /\ db' = <<>>
  /\ call' = [call EXCEPT !.pc = "returned"]
  /\ UNCHANGED <<browser, platform, filter, key_cache, keyring, local_state,
                 lookups, result, log, ret, conn, mutex, query, setter,
                 installed, evals>>

InitSession ==
  /\ ReaderIdle
  /\ call = NoCall
  /\ ret = NoCall
  /\ fs = {}
  /\ conn = None
  /\ ManagerIdle

NextSession ==
  \/ Build
  \/ Tempdir
  \/ TempdirFails
  \/ Spawn
  \/ SpawnFails
  \/ ChildWritesCookies
  \/ ChildExits
  \/ Wait
  \/ WaitFails
  \/ SessionNew
  \/ SessionGetCookies
  \/ DropManager
  \/ DropContext

SpecSession == InitSession /\ [][NextSession]_vars

\* C20: however build finishes once the temporary directory was created
\* (Ok, spawn failure, wait failure, database open failure, query or
\* decrypt failure), the directory is removed when build has returned, and
\* the connection over it is closed before the directory is removed.
C20_TempDirRemoved ==
  /\ (call.fn = "build" /\ call.pc = "returned" /\ call.created) =>
       /\ call.exit \in {"Ok", "spawn", "wait", "open", "query"}
       /\ \A path \in fs : ~IsUnder(path, TempDir)
       /\ conn = None
  /\ conn # None => (TempDir \in fs /\ Unwrap(conn).file \in fs)

\* build has returned the error of a failed decryption, after the browser
\* wrote its database and the manager had opened it.
C20_Witness ==
  /\ call.fn = "build"
  /\ call.pc = "returned"
  /\ call.created
  /\ call.exit = "query"
  /\ IsErr(ret)
  /\ ret.err.kind = "CookieValueDecrypt"
  /\ installed # None
  /\ fs = {}
  /\ conn = None

\* The indices of the sections of ini whose name starts with prefix.
SectionsNamed(ini, prefix) ==
  {i \in 1..Len(ini) :
     /\ Len(ini[i].name) >= Len(prefix)
     /\ \A k \in 1..Len(prefix) : ini[i].name[k] = prefix[k]}

\* The least of a non-empty set of indices.
Least(indices) == CHOOSE i \in indices : \A j \in indices : i <= j

\* The indices of the Profile sections with Default=1.
DefaultProfiles(ini) ==
  {i \in SectionsNamed(ini, Profile) :
     "Default" \in DOMAIN ini[i].section /\ ini[i].section["Default"] = "1"}

\* C21: get_default_profile_path returns the Default value of the first
\* section named Install.. when there is one, otherwise the Path of the
\* first section named Profile.. with Default=1, and None when there is
\* neither.
C21_DefaultProfilePath ==
  call.fn = "get_default_profile_path" =>
    IF SectionsNamed(call.profile_config, Install) # {}
      THEN ret = section_get(
                   call.profile_config[Least(SectionsNamed(call.profile_config,
                                                           Install))].section,
                   "Default")
    ELSE IF DefaultProfiles(call.profile_config) # {}
      THEN ret = section_get(
                   call.profile_config[Least(DefaultProfiles(call.profile_config))].section,
                   "Path")
    ELSE ret = None

\* A default profile comes first and an installation after it, as in the
\* profiles.ini of the tests; the installation's Default was returned.
C21_Witness ==
  /\ call.fn = "get_default_profile_path"
  /\ Len(call.profile_config) = 3
  /\ call.profile_config[1].name = Profile \o <<"1">>
  /\ call.profile_config[1].section = [Default |-> "1", Path |-> "p"]
  /\ call.profile_config[2].name = Install \o <<"A">>
  /\ call.profile_config[2].section = [Default |-> "d"]
  /\ ret = Some("d")

\* The authority without its port: a bracketed address up to its closing
\* bracket, otherwise what precedes the colon.
WithoutPort(authority) ==
  IF authority[1] = "["
    THEN SubSeq(authority, 1, CHOOSE i \in 1..Len(authority) : authority[i] = "]")
  ELSE IF \E i \in 1..Len(authority) : authority[i] = ":"
    THEN SubSeq(authority, 1,
                (CHOOSE i \in 1..Len(authority) : authority[i] = ":") - 1)
  ELSE authority

\* C22: Uri::base_domain returns the last two dot-separated labels of the
\* host, the port ignored, for a domain name of at least two labels, and
\* None for an IPv4 literal, a bracketed IPv6 literal and a single label.
C22_BaseDomainLastTwoLabels ==
  call.fn = "base_domain" =>
    IF \/ WithoutPort(call.authority)[1] = "["
       \/ IsIpv4(WithoutPort(call.authority))
       \/ Len(split_dot(WithoutPort(call.authority))) < 2
      THEN ret = None
    ELSE ret = Some(LastTwoLabels(WithoutPort(call.authority)))

\* base_domain of https://b.ab.a:8 returned ab.a.
C22_Witness ==
  /\ call.fn = "base_domain"
  /\ call.authority = <<"b", ".", "a", "b", ".", "a", ":", "8">>
  /\ ret = Some(<<"a", "b", ".", "a">>)

\* C23: the key cache of a ChromeManager is write-once. It is empty after
\* construction, and once it holds a key every later state holds that same
\* key: no get_cookies, set_filter, change of the credential store or of
\* Local State, successful or failed decryption clears or replaces it.
C23_KeyCacheWriteOnce ==
  /\ key_cache = None
  /\ [][IsSome(key_cache) => key_cache' = key_cache]_vars

\* A call that succeeded with the cached key after the credential store had
\* lost the password the key was derived from.
C23_Witness ==
  /\ browser = "chrome"
  /\ platform \in {"linux", "macos"}
  /\ keyring = None
  /\ IsSome(key_cache)
  /\ IsOk(result)
  /\ \E j \in DOMAIN log :
       /\ log[j].op = "cipher"
       /\ log[j].key = Unwrap(key_cache)
       /\ NeedsCachedKey(platform, db[log[j].row].encrypted_value.v)

\* The rows of the table whose host_key the predicate accepts.
MatchingRows == {i \in DOMAIN db : db[i].host_key \in {Text(h) : h \in filter}}

\* C24: ChromeManager::get_cookies returns a cookie for a row only if
\* host_filter returned true for the row's host_key; decryption and key
\* acquisition are invoked for matching rows only; and when no matching row
\* carries a tag that needs the credential store, the call makes no lookup.
C24_OnlyMatchingRowsTouched ==
  [][(browser = "chrome" /\ result'.tag # "None")
       => /\ IsOk(result')
               => \A k \in DOMAIN result'.val : result'.val[k].row \in MatchingRows'
          /\ \A j \in DOMAIN log' : log'[j].row \in MatchingRows'
          /\ (\A i \in MatchingRows' :
                 ~NeedsCachedKey(platform, db[i].encrypted_value.v))
               => (lookups' = lookups /\ key_cache' = key_cache)]_vars

\* A Linux call under the predicate of a.com, over a table that holds a
\* v11-tagged row of b.org: it returned the cookie of a.com and made no
\* lookup.
C24_Witness ==
  /\ browser = "chrome"
  /\ platform = "linux"
  /\ filter = {"a.com"}
  /\ \E i \in DOMAIN db :
       /\ db[i].host_key = Text("b.org")
       /\ NeedsCachedKey(platform, db[i].encrypted_value.v)
  /\ IsOk(result)
  /\ Len(result.val) > 0
  /\ lookups = 0
  /\ key_cache = None

\* The tags for which the build for p selects a key it can acquire.
KeySelected(p, encrypted_value) ==
  \/ NeedsCachedKey(p, encrypted_value)
  \/ p \in {"linux", "posix"} /\ GetTo(encrypted_value, HEADER_LEN) = Some(TagV10)

\* A remainder after the tag that cannot be a stored value: on Windows
\* shorter than the nonce, on Unix empty or not a whole number of blocks.
TooShort(p, n) ==
  IF p = "windows" THEN n < AEAD_NONCE_SIZE
  ELSE n = 0 \/ n % IVBLOCK_SIZE_AES128 # 0

TagName(tag) ==
  IF tag = Some(TagV10) THEN "v10" ELSE IF tag = Some(TagV11) THEN "v11" ELSE ""

\* C26: when key acquisition fails, the GetKey error decrypt_cookie_value
\* returns names the key variant of the value being decrypted: key_variant
\* is the 3-byte tag of the stored value, on every platform.
C26_GetKeyNamesTag ==
  (/\ call.fn = "decrypt_cookie_value"
   /\ IsErr(ret.res)
   /\ ret.res.err.kind = "GetKey")
    => ret.res.err.key_variant = TagName(GetTo(call.encrypted_value, HEADER_LEN))

\* C27: ChromeManager::get_cookies never aborts on the expiry column:
\* whatever signed 64-bit expires_utc the matching rows hold, the call
\* returns Ok or Err and the expectation "Invalid date" is not violated.
C27_ExpiryNeverAborts ==
  browser = "chrome" => result # Panic("Invalid date")

(***************************************************************************)
(* App::wrap_command (cli, app.rs): the cookies are written to a temporary *)
(* file whose path is handed to the wrapped command.  call holds the       *)
(* position in the function, the arguments of the Command built so far,    *)
(* what the file holds and what the child found at the path.               *)
(***************************************************************************)
\* The path NamedTempFile::new() picks.
TmpCookieFile == <<"tmp", "cookies">>

\* The formatted cookies: none, and two texts.
FormattedCookies == {<<>>, TextPE, TagV10}

\* What the child exits with: a code, or nothing when a signal killed it.
ExitStatuses == {Some(0), Some(1), None}

\* wrap_command is called.
WrapCommand ==
  /\ call = NoCall
  /\ \E cookies_opt \in {"-b", "--load-cookies"},
        forwarded_args \in {<<>>, <<"url">>},
        formatted_cookies \in FormattedCookies :
       call' = [fn |-> "wrap_command", pc |-> "new", cookies_opt |-> cookies_opt,
                forwarded_args |-> forwarded_args,
                formatted_cookies |-> formatted_cookies, content |-> None,
                args |-> <<>>, child |-> "none", found |-> "none",
                status |-> None]
  /\ UNCHANGED <<reader_vars, ret, manager_vars>>

\* NamedTempFile::new()?: the file is created, empty.
NamedTempFileNew ==
  /\ call.fn = "wrap_command"
  /\ call.pc = "new"
  /\ fs' = fs \cup {TmpCookieFile}
  /\ call' = [call EXCEPT !.pc = "write_all", !.content = Some(<<>>)]
  /\ UNCHANGED <<reader_vars, ret, conn, mutex, query, setter, installed, evals>>

\* NamedTempFile::new()? fails.
NamedTempFileNewFails ==
  /\ call.fn = "wrap_command"
  /\ call.pc = "new"
  /\ call' = [call EXCEPT !.pc = "returned"]
  /\ ret' = Err([kind |-> "Io", source |-> "NamedTempFile::new"])
  /\ UNCHANGED <<reader_vars, manager_vars>>

\* tmp_cookie_file.write_all(formatted_cookies)?, and into_temp_path():
\* the file holds the cookies and its handle is closed.
WriteAll ==
  /\ call.fn = "wrap_command"
  /\ call.pc = "write_all"
  /\ call' = [call EXCEPT !.pc = "arg", !.content = Some(call.formatted_cookies)]
  /\ UNCHANGED <<reader_vars, ret, manager_vars>>

\* write_all fails: `?` leaves the function and drops tmp_cookie_file,
\* which removes the file.
WriteAllFails ==
  /\ call.fn = "wrap_command"
  /\ call.pc = "write_all"
  /\ fs' = fs \ {TmpCookieFile}
  /\ call' = [call EXCEPT !.pc = "returned", !.content = None]
  /\ ret' = Err([kind |-> "Io", source |-> "write_all"])
  /\ UNCHANGED <<reader_vars, conn, mutex, query, setter, installed, evals>>

\* Command::new(cmd).arg(cookies_opt).arg(tmp_cookies_path).args(..):
\* arg takes tmp_cookies_path by value, copies the path into the command
\* and drops the TempPath when it returns, which removes the file.
ArgTmpCookiesPath ==
  /\ call.fn = "wrap_command"
  /\ call.pc = "arg"
  /\ fs' = fs \ {TmpCookieFile}
  /\ call' = [call EXCEPT !.pc = "spawn", !.content = None,
                          !.args = <<call.cookies_opt, TmpCookieFile>>
                                     \o call.forwarded_args]
  /\ UNCHANGED <<reader_vars, ret, conn, mutex, query, setter, installed, evals>>

\* spawn()?: the child runs with the arguments.
SpawnWrapped ==
  /\ call.fn = "wrap_command"
  /\ call.pc = "spawn"
  /\ call' = [call EXCEPT !.pc = "wait", !.child = "running"]
  /\ UNCHANGED <<reader_vars, ret, manager_vars>>

\* spawn()? fails.
SpawnWrappedFails ==
  /\ call.fn = "wrap_command"
  /\ call.pc = "spawn"
  /\ call' = [call EXCEPT !.pc = "returned"]
  /\ ret' = Err([kind |-> "Io", source |-> "spawn"])
  /\ UNCHANGED <<reader_vars, manager_vars>>

\* The child opens the path it was given as its second argument.
ChildOpensCookies ==
  /\ call.fn = "wrap_command"
  /\ call.child = "running"
  /\ call.found = "none"
  /\ call' = [call EXCEPT !.found = IF call.args[2] \in fs THEN "file"
                                    ELSE "missing"]
  /\ UNCHANGED <<reader_vars, ret, manager_vars>>

\* The child exits, with a code or killed by a signal.
WrappedExits ==
  /\ call.fn = "wrap_command"
  /\ call.child = "running"
  /\ \E status \in ExitStatuses :
       call' = [call EXCEPT !.child = "exited", !.status = status]
  /\ UNCHANGED <<reader_vars, ret, manager_vars>>

\* child.wait()?, ensure!(status.code().is_some(), ..), Ok(code).
WaitWrapped ==
  /\ call.fn = "wrap_command"
  /\ call.pc = "wait"
  /\ call.child = "exited"
  /\ call' = [call EXCEPT !.pc = "returned"]
  /\ ret' = IF IsSome(call.status) THEN Ok(Unwrap(call.status))
            ELSE Err([kind |-> "has been killed by a signal"])
  /\ UNCHANGED <<reader_vars, manager_vars>>

\* child.wait()? fails.
WaitWrappedFails ==
  /\ call.fn = "wrap_command"
  /\ call.pc = "wait"
  /\ call.child = "exited"
  /\ call' = [call EXCEPT !.pc = "returned"]
  /\ ret' = Err([kind |-> "Io", source |-> "wait"])
  /\ UNCHANGED <<reader_vars, manager_vars>>

NextWrap ==
  \/ WrapCommand
  \/ NamedTempFileNew
  \/ NamedTempFileNewFails
  \/ WriteAll
  \/ WriteAllFails
  \/ ArgTmpCookiesPath
  \/ SpawnWrapped
  \/ SpawnWrappedFails
  \/ ChildOpensCookies
  \/ WrappedExits
  \/ WaitWrapped
  \/ WaitWrappedFails

SpecWrap == InitSession /\ [][NextWrap]_vars

\* C28: the temporary cookie file whose path is passed to the wrapped
\* command exists on disk, holding the formatted cookies, from before the
\* child is spawned until the child has exited.
C28_CookieFileOutlivesChild ==
  (/\ call.fn = "wrap_command"
   /\ call.pc = "spawn" \/ call.child = "running")
    => /\ call.args[2] \in fs
       /\ call.content = Some(call.formatted_cookies)

\* The host's base domain, or the host itself when it has none.
BaseOrHost(h) == IF base_domain(h) # None THEN base_domain(h) ELSE h.host

\* C29: filter_hosts matches on whole-label boundaries only: with a
\* non-empty host list it returns true only if the domain without its
\* leading dot equals a listed host, or a listed host's base domain equals
\* it or ends with "." followed by it; a mere character suffix of a base
\* domain is not matched.
C29_WholeLabelMatch ==
  (call.fn = "filter_hosts" /\ call.hosts # <<>> /\ ret = Ok(TRUE)) =>
    \E i \in DOMAIN call.hosts :
      \/ call.hosts[i].host = Some(cookie_valid_domain(call.domain))
      \/ /\ BaseOrHost(call.hosts[i]) # None
         /\ \/ Unwrap(BaseOrHost(call.hosts[i])) = cookie_valid_domain(call.domain)
            \/ ends_with(Unwrap(BaseOrHost(call.hosts[i])),
                         <<".">> \o cookie_valid_domain(call.domain))

\* C30: in the decrypt_cookie_value of Linux and the other POSIX builds
\* the expectation "No data after the header" cannot fail: whenever a key
\* was selected the slice after the 3-byte header exists, and on Linux
\* every non-empty input yields Ok or Err, never a panic.
C30_HeaderExpectHolds ==
  (call.fn = "decrypt_cookie_value" /\ call.platform \in {"linux", "posix"}) =>
    /\ ret.res # Panic("No data after the header")
    /\ KeySelected(call.platform, call.encrypted_value)
         => GetFrom(call.encrypted_value, HEADER_LEN) # None
    /\ call.platform = "linux" => (IsOk(ret.res) \/ IsErr(ret.res))

\* A Linux reader that holds the key, given "v11" and nothing after it:
\* the cipher was handed the empty slice and the call returned an error.
C30_Witness ==
  /\ call.fn = "decrypt_cookie_value"
  /\ call.platform = "linux"
  /\ call.encrypted_value = TagV11
  /\ IsSome(call.key_cache)
  /\ \E j \in DOMAIN ret.log : ret.log[j].op = "cipher" /\ ret.log[j].data = <<>>
  /\ IsErr(ret.res)

====
